---- MODULE Spec2Model ----
(***************************************************************************)
(* Model of the FSM update handler of aos_updatemanager (package           *)
(* updatehandler, src/unnamed/part_008 lines 1-868): the coordinator FSM   *)
(* (looplab/fsm with asynchronous leave_state), the priority scheduler     *)
(* doPriorityOperations at goroutine granularity, the reboot loop of       *)
(* componentOperation, the persisted state blob and process restarts.      *)
(*                                                                         *)
(* Modules, the state store and the status consumer are the environment:   *)
(* a module call returns ok, an error or rebootRequired; a store write     *)
(* succeeds or fails; the process may be killed at any step.               *)
(***************************************************************************)
EXTENDS Integers, Sequences, FiniteSets, TLC

(***************************************************************************)
(* Bounds and configuration                                                *)
(***************************************************************************)

\* rebootRequired=true answers the modules may give within one transition: in the
\* runs of a single transition, and in the runs of the whole life cycle
MaxReboots == 3
MaxLifecycleReboots == 1
\* the highest aosVersion a prepare request asks for
MaxAos == 2

\* const statusChannelSize = 1
statusChannelSize == 1

\* cfg.UpdateModules: the modules a configuration may enable, with their priorities
Modules == {"a", "b", "c"}
updatePriority == [a |-> 20, b |-> 20, c |-> 10]
rebootPriority == [a |-> 2, b |-> 1, c |-> 1]

\* an id of a request for which no module is registered
UnknownId == "x"

\* the order in which a collection of ids is walked (Go leaves the order of a
\* map range open; the model fixes one)
IdOrder == <<"a", "b", "c", "x">>


eventPrepare == "prepare"
eventUpdate == "update"
eventApply == "apply"
eventRevert == "revert"
Events == {eventPrepare, eventUpdate, eventApply, eventRevert}

stateIdle == "idle"
statePrepared == "prepared"
stateUpdated == "updated"
stateFailed == "failed"
States == {stateIdle, statePrepared, stateUpdated, stateFailed}

StatusInstalling == "installing"
StatusError == "error"

(***************************************************************************)
(* Errors: nil is NoErr, every other error is a non-empty tuple naming     *)
(* what failed and for which component.                                    *)
(***************************************************************************)
NoErr == <<>>
NotFoundErr(id) == <<"not found", id>>
OperationErr(id) == <<"operation", id>>
RebootErr(id) == <<"reboot", id>>
EmptyListErr == <<"Prepare componenet list is empty">>
StoreErr == <<"set update state">>
SetVendorErr(id) == <<"set vendor version", id>>
SameVendorErr(id) == <<"Component already has required vendor version", id>>
SameAosErr(id) == <<"Component already has required Aos version", id>>
WrongAosErr == <<"wrong Aos version">>
DownloadErr(id) == <<"download", id>>
FileInfoErr(id) == <<"file info", id>>
SetAosErr(id) == <<"set Aos version", id>>
GetVendorErr(id) == <<"get vendor version", id>>
MismatchErr(id) == <<"versions mismatch in request and updated module", id>>

(***************************************************************************)
(* handlerState and the state blob of the store                            *)
(***************************************************************************)
\* an item of a prepare request, umclient.ComponentUpdateInfo: the versions it
\* declares; NoInfo declares none
NoInfo == [aos |-> 0, vendor |-> ""]

\* the status onPrepareState creates for an item
InstallingStatus(info) ==
    [status |-> StatusInstalling, error |-> NoErr, aos |-> info.aos, vendor |-> info.vendor]

NoStatuses == [id \in {} |-> InstallingStatus(NoInfo)]

\* event.Args[0] of prepare: the items by id; no item, and items without versions
NoRequest == [id \in {} |-> NoInfo]

Request(ids) == [id \in ids |-> NoInfo]

\* the aosVersions of a fresh store: there is none, GetAosVersion returns an error
\* or the zero value, and prepareComponent treats both as a version below every
\* version it compares with: 0 stands for no version
NoVersions == [id \in Modules \cup {UnknownId} |-> 0]

\* the vendor versions of a fresh store: the empty string stands for none
NoVendors == [id \in Modules \cup {UnknownId} |-> ""]

\* handler.componentStatuses as getVersions leaves it in idle when every module
\* reports the vendor version vendor
Installed(ids, vendor) == [id \in ids |-> [vendor |-> vendor]]

\* the operationState column as createConfigTable inserts it: "{}"
EmptyBlob == [UpdateState |-> "", Error |-> NoErr, ComponentStatuses |-> NoStatuses]

VARIABLES
    cfg,             \* the run's fixed inputs: the modules enabled in the configuration
                     \* given to New, the component lists the controller may submit, the
                     \* number of sendEvent calls it may have in flight, the reboot answers,
                     \* the answers of the store, the modules and the download (envs),
                     \* whether cfg.DownloadDir is set, the outcomes of os.RemoveAll
    fsmCurrent,      \* fsm.current
    fsmTransition,   \* fsm.transition: the event whose transition is set up, or "none"
    eventArgs,       \* event.Args[0] of that event (the prepare request)
    tpc,             \* where the goroutine running fsm.Transition() stands
    state,           \* handler.state
    stored,          \* the blob of storage.SetUpdateState / GetUpdateState
    statusChannel,   \* handler.statusChannel
    chk,             \* per event, the sendEvent calls between fsm.Cannot and fsm.Event
    sched,           \* the locals of the running doPriorityOperations
    rebootStatuses,  \* rebootStatuses of the running doOperation / componentOperation
    coErr,           \* err of the running componentOperation
    rebootLeft,      \* rebootRequired=true answers left to the modules in this transition
    aosStore,        \* per id, what storage.GetAosVersion has to return
    vendorStore,     \* per id, what storage.GetVendorVersion has to return
    componentStatuses, \* handler.componentStatuses: the VendorVersion of the enabled modules
    downloadDir,     \* the ids whose image file lies in handler.downloadDir
    initTask,        \* the goroutine of handler.init: per module, how far its calls are,
                     \* and the goroutine of Registered
    overlay,         \* an OverlayModule: its fields, its stored state, its update directory
    legacy,          \* a handler of the version-based API (Upgrade, Revert): its fields,
                     \* its storage, the platform version, its goroutines
    hist             \* history of the current transition, read by the properties only

vars == <<cfg, fsmCurrent, fsmTransition, eventArgs, tpc, state, stored, statusChannel,
          chk, sched, rebootStatuses, coErr, rebootLeft, aosStore, vendorStore,
          componentStatuses, downloadDir, initTask, overlay, legacy, hist>>

(***************************************************************************)
(* The FSM table of New                                                    *)
(***************************************************************************)
EventSrcPrepareAnywhere(e) ==
    CASE e = eventPrepare -> {stateIdle, stateFailed}
      [] e = eventUpdate -> {statePrepared}
      [] e = eventApply -> {stateUpdated}
      [] e = eventRevert -> {statePrepared, stateUpdated, stateFailed}

EventSrc(e) ==
    CASE e = eventPrepare -> {stateIdle}
      [] e = eventUpdate -> {statePrepared}
      [] e = eventApply -> {stateUpdated}
      [] e = eventRevert -> {statePrepared, stateUpdated, stateFailed}

EventDstRevertStays(e) ==
    CASE e = eventPrepare -> statePrepared
      [] e = eventUpdate -> stateUpdated
      [] e = eventApply -> stateIdle
      [] e = eventRevert -> fsmCurrent

EventDst(e) ==
    CASE e = eventPrepare -> statePrepared
      [] e = eventUpdate -> stateUpdated
      [] e = eventApply -> stateIdle
      [] e = eventRevert -> stateIdle

\* fsm.Can: the event has a transition from the current state and no transition is set up
Can(e) == fsmCurrent \in EventSrc(e) /\ fsmTransition = "none"

InTransitionNever == FALSE

\* fsm.Event refuses with InTransitionError while a transition is set up
InTransition == fsmTransition # "none"

\* the stopOnError argument each after_<event> callback gives componentOperation
StopOnError(e) == e \in {eventPrepare, eventUpdate}

\* handler.components: the ids with a module
Components == cfg.components

(***************************************************************************)
(* Helpers                                                                 *)
(***************************************************************************)
SeqOfSet(S) == SelectSeq(IdOrder, LAMBDA id : id \in S)

Last(s) == s[Len(s)]

Range(s) == {s[i] : i \in 1..Len(s)}

\* componentError
componentError(s, id, err) ==
    [s EXCEPT !.ComponentStatuses[id].status = StatusError,
              !.ComponentStatuses[id].error = err]

\* doOperation's loop over componentStatuses: every id without a module is marked
RECURSIVE notFoundErrors(_, _)
notFoundErrors(s, ids) ==
    IF ids = <<>> THEN s
    ELSE notFoundErrors(componentError(s, Head(ids), NotFoundErr(Head(ids))), Tail(ids))

\* sort.Slice(operations, priority descending); below 12 elements Go sorts by
\* insertion, which keeps the order of equal priorities
RECURSIVE SortOps(_, _)
SortOps(ids, prio) ==
    IF ids = <<>> THEN <<>>
    ELSE LET init == SortOps(SubSeq(ids, 1, Len(ids) - 1), prio)
             x == Last(ids)
         IN SelectSeq(init, LAMBDA y : prio[y] >= prio[x]) \o <<x>>
            \o SelectSeq(init, LAMBDA y : prio[y] < prio[x])

\* the priority the running pass sorts by
Prio(kind) == IF kind = "reboot" THEN rebootPriority ELSE updatePriority

NoSched == [kind |-> "none", ops |-> <<>>, st |-> <<>>, cursor |-> 0,
            priority |-> 0, groupErr |-> NoErr, err |-> NoErr]

NewOp == [st |-> "new", res |-> "none", loc |-> <<>>, err |-> NoErr]

\* doPriorityOperations up to its loop: sorted operations, priority of the first
NewSched(kind, ids) ==
    LET ops == SortOps(ids, Prio(kind))
    IN [kind |-> kind, ops |-> ops, st |-> [i \in 1..Len(ops) |-> NewOp], cursor |-> 0,
        priority |-> Prio(kind)[ops[1]], groupErr |-> NoErr, err |-> NoErr]

\* history of the current transition: the FSM state and the component statuses when
\* its event was accepted, the components whose operation was invoked and those that
\* returned an error, the first error, the number of accepted events whose
\* transition has not settled; crashedIn: the event whose transition the last restart
\* interrupted before its state write (rebooted: after a rebootRequired answer);
\* retry: the current event is that event, sent again
\* nOp, nTrue, nReboot: per module, the invocations of the operation of the event,
\* its rebootRequired=true answers and the invocations of module.Reboot
NoCount == [id \in Modules |-> 0]

\* vendorSeen, aosSeen: per id, the version module.GetVendorVersion and
\* storage.GetAosVersion returned without error to prepareComponent; fetched: the
\* ids downloadImage was called for; fetchFailed: those for which it or
\* image.CheckFileInfo returned an error; prepared: the ids module.Prepare was
\* called for; applied: those for which module.Apply returned without error;
\* written: those for which storage.SetAosVersion returned without error
\* lastUpdate: per id, the answer of the last module.Update, with which vendorSeen
\* holds what module.GetVendorVersion then returned without error to onUpdateState
\* vendorWritten: per id, the version storage.SetVendorVersion has written
\* submitted: per id, the aosVersion of the item of the prepare of the cycle under
\* way; a cycle is over when the handler is back in idle
NoSeen == [id \in {} |-> 0]

NoAnswers == [id \in {} |-> "none"]

\* before: what the stores held for every id, and the module storage for every
\* module looked at, when the prepare of the cycle under way was accepted; pure:
\* no update, no apply and at most one revert has been accepted in the cycle
\* since; reverted: a revert has
NoBefore == [aos |-> NoSeen, vendor |-> NoAnswers, module |-> << >>, pure |-> FALSE,
             reverted |-> FALSE]

NoHist == [src |-> "none", atAccept |-> NoStatuses, invoked |-> {}, errComps |-> {},
           firstErr |-> NoErr, inFlight |-> 0,
           crashedIn |-> "none", rebooted |-> FALSE, retry |-> FALSE,
           nOp |-> NoCount, nTrue |-> NoCount, nReboot |-> NoCount,
           vendorSeen |-> NoSeen, aosSeen |-> NoSeen, fetched |-> {}, fetchFailed |-> {},
           prepared |-> {}, applied |-> {}, written |-> {},
           lastUpdate |-> NoAnswers, vendorWritten |-> NoAnswers, submitted |-> NoSeen,
           before |-> NoBefore]

HistErr(h, ids, err) ==
    [h EXCEPT !.errComps = @ \cup ids,
              !.firstErr = IF @ = NoErr THEN err ELSE @]

\* what the store, the module and the download answer to the calls of one
\* operation besides the module's result. setVendor, setAos: the write succeeds;
\* vendorOk, vendor: module.GetVendorVersion returns no error, and the version;
\* readAos, readVendor: storage.GetAosVersion and storage.GetVendorVersion return
\* the stored version; fetch: the URL names
\* a local file, or the download succeeds, or it fails; check: size, sha256 and
\* sha512 of the file match the item
Envs == [setVendor : BOOLEAN, vendorOk : BOOLEAN, vendor : {"v", "w"}, readAos : BOOLEAN,
         fetch : {"local", "ok", "fail"}, check : BOOLEAN, setAos : BOOLEAN,
         readVendor : BOOLEAN]

\* every call succeeds, the image is a local file of the right content, and the
\* modules report the empty vendor version, that of the items which declare none
QuietEnv == [setVendor |-> TRUE, vendorOk |-> TRUE, vendor |-> "", readAos |-> TRUE,
             fetch |-> "local", check |-> TRUE, setAos |-> TRUE, readVendor |-> TRUE]

(***************************************************************************)
(* Initial state: a fresh database and a handler just returned by New      *)
(***************************************************************************)
LoadStateIdle(blob) ==
    [blob EXCEPT !.UpdateState = stateIdle]

\* New: getState, an empty updateState reads as idle
LoadState(blob) ==
    [blob EXCEPT !.UpdateState = IF @ = "" THEN stateIdle ELSE @]

NoCalls == [e \in Events |-> 0]

\* handler.init has returned (initWG.Done) and the goroutine of Registered, if
\* there was one, has sent its snapshot
InitOver == [calls |-> << >>, registered |-> "sent"]

\* no OverlayModule is looked at
NoOverlay == << >>

\* no handler of the version-based API is part of the run
NoLegacy == << >>

CallsInFlight == chk[eventPrepare] + chk[eventUpdate] + chk[eventApply] + chk[eventRevert]

Init ==
    /\ cfg = [components |-> {"a", "c"}, reboots |-> MaxLifecycleReboots,
              requests |-> {NoRequest, Request({"a", "x"}), Request({"a", "c"})},
              callers |-> 1, envs |-> {QuietEnv}, downloadDir |-> TRUE,
              removeAll |-> {TRUE}]
    /\ stored = EmptyBlob
    /\ state = LoadState(EmptyBlob)
    /\ fsmCurrent = stateIdle
    /\ fsmTransition = "none"
    /\ eventArgs = NoRequest
    /\ tpc = "none"
    /\ initTask = InitOver
    /\ legacy = NoLegacy
    /\ overlay = NoOverlay
    /\ statusChannel = <<>>
    /\ chk = NoCalls
    /\ sched = NoSched
    /\ rebootStatuses = <<>>
    /\ coErr = NoErr
    /\ rebootLeft = 0
    /\ aosStore = NoVersions
    /\ vendorStore = NoVendors
    /\ componentStatuses = Installed(cfg.components, QuietEnv.vendor)
    /\ downloadDir = {}
    /\ hist = NoHist

(***************************************************************************)
(* sendEvent. A call that returns an error changes nothing.                *)
(***************************************************************************)
\* sendEvent up to fsm.Event: fsm.Cannot refuses and the call returns the error,
\* or the call goes on to fsm.Event
SendEventCheck(e) ==
    /\ CallsInFlight < cfg.callers
    /\ chk' = IF Can(e) THEN [chk EXCEPT ![e] = @ + 1] ELSE chk
    /\ UNCHANGED <<cfg, legacy, initTask, overlay, aosStore, vendorStore, componentStatuses, downloadDir, fsmCurrent, fsmTransition, eventArgs, tpc, state, stored,
                   statusChannel, sched, rebootStatuses, coErr, rebootLeft, hist>>

\* what fsm.Event answers to event e: InTransitionError, InvalidEventError, or the
\* AsyncError of leave_state, for which sendEvent returns nil
EventAccepted(e) == ~InTransition /\ fsmCurrent \in EventSrc(e)

\* the history of a transition that has just been set up
AcceptHist(e, h, s) ==
    [src |-> s.UpdateState, atAccept |-> s.ComponentStatuses,
     invoked |-> {}, errComps |-> {}, firstErr |-> NoErr,
     inFlight |-> h.inFlight + 1, crashedIn |-> "none",
     rebooted |-> (h.crashedIn = e /\ h.rebooted), retry |-> (h.crashedIn = e),
     nOp |-> NoCount, nTrue |-> NoCount, nReboot |-> NoCount,
     vendorSeen |-> NoSeen, aosSeen |-> NoSeen, fetched |-> {}, fetchFailed |-> {},
     prepared |-> {}, applied |-> {}, written |-> {},
     lastUpdate |-> NoAnswers, vendorWritten |-> NoAnswers, submitted |-> h.submitted,
     before |-> h.before]

\* the stores as the prepare of a cycle finds them
Before ==
    [aos |-> aosStore, vendor |-> vendorStore,
     module |-> [id \in DOMAIN overlay |-> overlay[id].stored], pure |-> TRUE,
     reverted |-> FALSE]

\* the aosVersion of every item of a request
Submitted(args) == [id \in DOMAIN args |-> args[id].aos]

\* fsm.Event, under eventMu, which fsm.Transition() holds while the callbacks run:
\* on acceptance the transition is set up and sendEvent starts its goroutine
SendEventFire(e, args) ==
    /\ chk[e] > 0
    /\ tpc \in {"none", "pending"}
    /\ chk' = [chk EXCEPT ![e] = @ - 1]
    /\ IF EventAccepted(e)
         THEN /\ fsmTransition' = e
              /\ eventArgs' = IF e = eventPrepare THEN args ELSE NoRequest
              /\ tpc' = "pending"
              /\ rebootLeft' = cfg.reboots
              /\ hist' = [AcceptHist(e, hist, state) EXCEPT
                              !.submitted = IF e = eventPrepare THEN Submitted(args) ELSE @,
                              !.before = IF e = eventPrepare THEN Before
                                         ELSE [@ EXCEPT
                                                 !.pure = @ /\ e = eventRevert
                                                            /\ ~hist.before.reverted,
                                                 !.reverted = @ \/ e = eventRevert]]
         ELSE UNCHANGED <<cfg, legacy, initTask, overlay, aosStore, vendorStore, componentStatuses, downloadDir, fsmTransition, eventArgs, tpc, rebootLeft, hist>>
    /\ UNCHANGED <<cfg, legacy, initTask, overlay, aosStore, vendorStore, componentStatuses, downloadDir, fsmCurrent, state, stored, statusChannel, sched, rebootStatuses, coErr>>

(***************************************************************************)
(* The goroutine of fsm.Transition(): f.current = dst, after_<event>,      *)
(* after_event. The three operators below are the places where the         *)
(* callback of an event goes on after a synchronous stretch of code; each  *)
(* gives the variables of the callback their next values. s, cur, ce and h *)
(* are handler.state, fsm.current, componentOperation's err and the        *)
(* history as the stretch has left them.                                   *)
(***************************************************************************)

FailsOnErrorNever(ev) == FALSE

\* the callbacks that call handler.fsm.SetState(stateFailed) when
\* componentOperation returns an error: onPrepareState and onUpdateState
FailsOnError(ev) == ev \in {eventPrepare, eventUpdate}

\* componentOperation has returned err: the rest of on<Event>State
FinishCallback(ev, s, cur, err, h) ==
    /\ state' = IF err # NoErr THEN [s EXCEPT !.Error = err] ELSE s
    /\ fsmCurrent' = IF err # NoErr /\ FailsOnError(ev) THEN stateFailed ELSE cur
    /\ tpc' = "changed"
    /\ sched' = NoSched
    /\ rebootStatuses' = <<>>
    /\ coErr' = NoErr
    /\ hist' = h

UnknownNeverAborts(ev, unknown) == FALSE

\* doOperation: with stopOnError the first id without a module makes it return
UnknownAborts(ev, unknown) == unknown # <<>> /\ StopOnError(ev)

\* doOperation up to the start of doPriorityOperations: an id without a module
\* is marked and, with stopOnError, ends the transition; without it the error kept
\* in err is overwritten by the result of doPriorityOperations, nil for no operation
BeginOperation(ev, s, cur, statuses, ce, h) ==
    LET unknown == SelectSeq(statuses, LAMBDA id : id \notin Components)
        known == SelectSeq(statuses, LAMBDA id : id \in Components)
    IN IF UnknownAborts(ev, unknown)
         THEN FinishCallback(ev, componentError(s, Head(unknown), NotFoundErr(Head(unknown))),
                             cur, NotFoundErr(Head(unknown)),
                             HistErr(h, {Head(unknown)}, NotFoundErr(Head(unknown))))
         ELSE LET s2 == notFoundErrors(s, unknown)
                  h2 == IF unknown = <<>> THEN h
                        ELSE HistErr(h, Range(unknown), NotFoundErr(Head(unknown)))
              IN IF known = <<>>
                   THEN FinishCallback(ev, s2, cur, ce, h2)
                   ELSE /\ state' = s2
                        /\ fsmCurrent' = cur
                        /\ tpc' = "op"
                        /\ sched' = NewSched("op", known)
                        /\ rebootStatuses' = <<>>
                        /\ coErr' = ce
                        /\ hist' = h2

\* doPriorityOperations has returned e to doOperation or doReboot: the rest of
\* the loop body of componentOperation
AfterPass(ev, e) ==
    LET stop == StopOnError(ev)
        ce == IF coErr = NoErr THEN e ELSE coErr
    IN IF e # NoErr /\ stop
         THEN FinishCallback(ev, state, fsmCurrent, e, hist)
         ELSE IF sched.kind = "op"
           THEN IF rebootStatuses = <<>>
                  THEN FinishCallback(ev, state, fsmCurrent, ce, hist)
                  ELSE \* doReboot: one operation per component of the bucket
                       /\ tpc' = "reboot"
                       /\ sched' = NewSched("reboot", rebootStatuses)
                       /\ coErr' = ce
                       /\ UNCHANGED <<state, fsmCurrent, rebootStatuses, hist>>
           ELSE \* operationStatuses = rebootStatuses, next doOperation
                BeginOperation(ev, state, fsmCurrent, rebootStatuses, ce, hist)

\* fsm.Transition(): f.current = dst, then on<Event>State up to the scheduler
TransitionStart ==
    /\ tpc = "pending"
    /\ LET ev == fsmTransition
           cur == EventDst(ev)
           s0 == [state EXCEPT !.Error = NoErr]
           s1 == IF ev = eventPrepare
                   THEN [s0 EXCEPT !.ComponentStatuses =
                            [id \in DOMAIN eventArgs |-> InstallingStatus(eventArgs[id])]]
                   ELSE s0
           statuses == SeqOfSet(DOMAIN s1.ComponentStatuses)
       IN IF ev = eventPrepare /\ eventArgs = NoRequest
            THEN /\ state' = [s1 EXCEPT !.Error = EmptyListErr]
                 /\ fsmCurrent' = stateFailed
                 /\ tpc' = "changed"
                 /\ UNCHANGED <<sched, rebootStatuses, coErr, hist>>
            ELSE IF statuses = <<>>
                   THEN FinishCallback(ev, s1, cur, NoErr, hist)
                   ELSE BeginOperation(ev, s1, cur, statuses, NoErr, hist)
    /\ UNCHANGED <<cfg, legacy, initTask, overlay, aosStore, vendorStore, componentStatuses, downloadDir, fsmTransition, eventArgs, stored, statusChannel, chk, rebootLeft>>

(***************************************************************************)
(* doPriorityOperations                                                    *)
(***************************************************************************)
Running == tpc \in {"op", "reboot"}

AllDoneEvery == \A i \in 1..Len(sched.ops) : sched.st[i].st = "done"

\* wg.Wait(): every goroutine started so far has called wg.Done()
AllDone == \A i \in 1..sched.cursor : sched.st[i].st = "done"

OpPriority(i) == Prio(sched.kind)[sched.ops[i]]

BarrierNone == TRUE

\* wg.Wait() before the operations of the next priority are started
Barrier == AllDone

RebootStopNever(e) == FALSE

\* the stopOnError argument componentOperation gives doReboot: its own
RebootStopOnError(e) == StopOnError(e)

\* the stopOnError argument of the running pass
PassStopOnError ==
    IF sched.kind = "reboot" THEN RebootStopOnError(fsmTransition)
    ELSE StopOnError(fsmTransition)

StopsNever(groupErr) == FALSE

\* what a group's error means for the scheduler when the priority changes
StopsAt(groupErr) == groupErr # NoErr /\ PassStopOnError

\* the go statement of the loop: the operation of item i starts
StartOp(s, i) ==
    [s EXCEPT !.st[i].st = "run", !.cursor = i]

\* one iteration of the loop of doPriorityOperations
Launch ==
    /\ Running
    /\ sched.cursor < Len(sched.ops)
    /\ LET i == sched.cursor + 1
           h2 == IF sched.kind = "op"
                   THEN [hist EXCEPT !.invoked = @ \cup {sched.ops[i]},
                                     !.nOp[sched.ops[i]] = @ + 1]
                   ELSE [hist EXCEPT !.nReboot[sched.ops[i]] = @ + 1]
       IN IF OpPriority(i) = sched.priority
            THEN /\ sched' = StartOp(sched, i)
                 /\ hist' = h2
                 /\ UNCHANGED <<state, fsmCurrent, tpc, rebootStatuses, coErr>>
            ELSE /\ Barrier
                 /\ IF StopsAt(sched.groupErr)
                      THEN AfterPass(fsmTransition, sched.groupErr)
                      ELSE /\ sched' = StartOp(
                                  [sched EXCEPT !.err = IF @ = NoErr THEN sched.groupErr ELSE @,
                                                !.groupErr = NoErr,
                                                !.priority = OpPriority(i)], i)
                           /\ hist' = h2
                           /\ UNCHANGED <<state, fsmCurrent, tpc, rebootStatuses, coErr>>
    /\ UNCHANGED <<cfg, legacy, initTask, overlay, aosStore, vendorStore, componentStatuses, downloadDir, fsmTransition, eventArgs, stored, statusChannel, chk, rebootLeft>>

(***************************************************************************)
(* OverlayModule. A module is a record of the fields of the Go struct      *)
(* (state, bootWithUpdate, bootFailed, vendorVersion), of what the module  *)
(* storage holds for its id (stored: <<>> or the one saved state), of the  *)
(* files of its update directory, and of a log read by the properties      *)
(* only: the last call with its results, whether module.rebooter.Reboot    *)
(* was invoked in it, and whether Update, Apply or Revert has set          *)
(* RebootRequest since the module was created. Each method is a function   *)
(* of the module and of the one file or storage operation that fails in    *)
(* the call (fault), and gives the module after the call.                  *)
(***************************************************************************)
idleState == 0
preparedState == 1
updatedState == 2

doUpdateFileName == "do_update"
doApplyFileName == "do_apply"
updatedFileName == "updated"
failedFileName == "failed"
imageFileName == "image.squashfs"

\* the file or storage operation that returns an error in a call, if any
OverlayFaults ==
    {"none", "version", "save", "remove", "clear", "rename", "write", "annotations",
     "rebooter", "unflag"}

\* moduleState{}
ZeroModuleState == [UpdateState |-> idleState, RebootRequest |-> FALSE, UpdateType |-> ""]

NoLog == [call |-> "new", ret |-> FALSE, err |-> "", invoked |-> FALSE, tick |-> 0,
          requested |-> FALSE]

\* overlaymodule.New: getState reads the stored state, ErrNotExist gives the zero
\* state; the other fields are zero
NewOverlay(blob, files) ==
    [state |-> IF blob = <<>> THEN ZeroModuleState ELSE blob[1],
     stored |-> blob, bootWithUpdate |-> FALSE, bootFailed |-> FALSE,
     vendorVersion |-> "", files |-> files, log |-> NoLog]

\* the call has gone through an assignment module.state.RebootRequest = true: of
\* Update in a prepared module, of Apply in an updated one, of Revert in one
\* that is not idle and has booted with the update
SetsRequest(m, before, call) ==
    \/ call = "update" /\ before.state.UpdateState = preparedState
          /\ m.state.UpdateState = updatedState
    \/ call = "apply" /\ before.state.UpdateState = updatedState
          /\ m.state.UpdateState = idleState
    \/ call = "revert" /\ before.state.UpdateState # idleState /\ before.bootWithUpdate
          /\ m.state.UpdateState = idleState

\* the return of a call: the log takes the call and its results
Return(m, before, call, ret, err, invoked) ==
    [m EXCEPT !.log = [call |-> call, ret |-> ret, err |-> err, invoked |-> invoked,
                       tick |-> 1 - before.log.tick,
                       requested |-> before.log.requested \/ SetsRequest(m, before, call)]]

\* saveState
Saved(m) == [m EXCEPT !.stored = <<m.state>>]

\* os.Remove of the updated flag, whose error Apply and Revert ignore
Unflagged(m, fault) ==
    IF fault = "unflag" THEN m ELSE [m EXCEPT !.files = @ \ {updatedFileName}]

\* Init
OverlayInit(m, fault) ==
    IF fault = "version" THEN Return(m, m, "init", FALSE, "version file", FALSE)
    ELSE
      LET m1 == [m EXCEPT !.vendorVersion = "v"]
          m2 == [m1 EXCEPT !.state.RebootRequest = FALSE]
      IN IF m1.state.RebootRequest /\ fault = "save"
           THEN Return(m2, m, "init", FALSE, "save state", FALSE)
         ELSE
           LET m3 == IF m1.state.RebootRequest THEN Saved(m2) ELSE m1
           IN IF m3.state.UpdateState = idleState
                THEN Return(m3, m, "init", FALSE, "", FALSE)
              ELSE
                LET m4 == [m3 EXCEPT !.bootWithUpdate = @ \/ updatedFileName \in m3.files]
                IN IF failedFileName \in m4.files
                     THEN IF fault = "remove"
                            THEN Return([m4 EXCEPT !.bootFailed = TRUE], m, "init", FALSE,
                                        "remove failed flag", FALSE)
                            ELSE Return([m4 EXCEPT !.bootFailed = TRUE,
                                                   !.files = @ \ {failedFileName}],
                                        m, "init", FALSE, "", FALSE)
                     ELSE Return(m4, m, "init", FALSE, "", FALSE)

\* Prepare, with the type of the annotations of the image
OverlayPrepare(m, type, fault) ==
    IF m.state.UpdateState \notin {idleState, preparedState}
      THEN Return(m, m, "prepare", FALSE, "wrong state", FALSE)
    ELSE IF fault = "annotations" THEN Return(m, m, "prepare", FALSE, "annotations", FALSE)
    ELSE
      LET m1 == [m EXCEPT !.state.UpdateType = type, !.state.UpdateState = preparedState]
      IN IF fault = "clear" THEN Return(m1, m, "prepare", FALSE, "clear update dir", FALSE)
         ELSE IF fault = "rename"
           THEN Return([m1 EXCEPT !.files = {}], m, "prepare", FALSE, "rename", FALSE)
         ELSE
           LET m2 == [m1 EXCEPT !.files = {imageFileName}]
           IN IF fault = "save" THEN Return(m2, m, "prepare", FALSE, "save state", FALSE)
              ELSE Return(Saved(m2), m, "prepare", FALSE, "", FALSE)

AlreadyUpdatedNever(m) == FALSE

\* the first test of Update: the module has done its update before
AlreadyUpdated(m) == m.state.UpdateState = updatedState

\* Update
OverlayUpdate(m, fault) ==
    IF AlreadyUpdated(m)
      THEN IF ~m.bootWithUpdate
             THEN Return(m, m, "update", FALSE, "boot with update failed", FALSE)
             ELSE Return(m, m, "update", FALSE, "", FALSE)
    ELSE IF m.state.UpdateState # preparedState
      THEN Return(m, m, "update", FALSE, "wrong state", FALSE)
    ELSE IF fault = "write" THEN Return(m, m, "update", FALSE, "write do_update", FALSE)
    ELSE
      LET m1 == [m EXCEPT !.files = @ \cup {doUpdateFileName},
                          !.state.UpdateState = updatedState,
                          !.state.RebootRequest = TRUE]
      IN IF fault = "save" THEN Return(m1, m, "update", FALSE, "save state", FALSE)
         ELSE Return(Saved(m1), m, "update", m1.state.RebootRequest, "", FALSE)

\* Apply
OverlayApply(m, fault) ==
    LET m0 == Unflagged(m, fault)
    IN IF m0.bootFailed THEN Return(m0, m, "apply", FALSE, "current boot failed", FALSE)
       ELSE IF m0.state.UpdateState = idleState
         THEN IF fault = "clear"
                THEN Return(m0, m, "apply", FALSE, "clear update dir", FALSE)
                ELSE Return([m0 EXCEPT !.files = {}], m, "apply", FALSE, "", FALSE)
       ELSE IF m0.state.UpdateState # updatedState
         THEN Return(m0, m, "apply", FALSE, "wrong state", FALSE)
       ELSE IF fault = "write" THEN Return(m0, m, "apply", FALSE, "write do_apply", FALSE)
       ELSE
         LET m1 == [m0 EXCEPT !.files = @ \cup {doApplyFileName},
                              !.state.UpdateState = idleState,
                              !.state.RebootRequest = TRUE]
         IN IF fault = "save" THEN Return(m1, m, "apply", FALSE, "save state", FALSE)
            ELSE Return(Saved(m1), m, "apply", m1.state.RebootRequest, "", FALSE)

RevertedKeepsState(m) == m.state

\* the module state Revert saves
RevertedState(m) ==
    [m.state EXCEPT !.RebootRequest = @ \/ m.bootWithUpdate, !.UpdateState = idleState]

\* Revert
OverlayRevert(m, fault) ==
    LET m0 == Unflagged(m, fault)
    IN IF m0.state.UpdateState = idleState THEN Return(m0, m, "revert", FALSE, "", FALSE)
       ELSE IF fault = "clear"
         THEN Return(m0, m, "revert", FALSE, "clear update dir", FALSE)
       ELSE
         LET m1 == [m0 EXCEPT !.files = {}, !.state = RevertedState(m0)]
         IN IF fault = "save" THEN Return(m1, m, "revert", FALSE, "save state", FALSE)
            ELSE Return(Saved(m1), m, "revert", m1.state.RebootRequest, "", FALSE)

\* the test of Reboot, of a module that has a rebooter
RebootGuard(m) == m.state.RebootRequest

\* Reboot
OverlayReboot(m, fault) ==
    IF RebootGuard(m)
      THEN IF fault = "rebooter" THEN Return(m, m, "reboot", FALSE, "rebooter", TRUE)
           ELSE Return(m, m, "reboot", FALSE, "", TRUE)
      ELSE Return(m, m, "reboot", FALSE, "", FALSE)

\* the update types of the images
UpdateTypes == {"full", "incremental"}

\* what a boot of the system may leave in the update directory: the scripts of
\* the boot are no part of this repository, they set the flags updated and failed
Booted(files) ==
    {files, files \cup {updatedFileName}, files \cup {failedFileName}}

\* the answers a module may give to the operation of the running pass
Results ==
    IF sched.kind = "reboot" \/ fsmTransition = eventPrepare THEN {"ok", "error"}
    ELSE {"ok", "error"} \cup (IF rebootLeft > 0 THEN {"reboot"} ELSE {})

\* the environments in which the aosVersion of the store may fail to be read or
\* to be written
\* the calls that fail in an environment
Faults(env) ==
    {f \in {"setVendor", "vendorOk", "readAos", "check", "setAos", "readVendor"} : ~env[f]}
        \cup (IF env.fetch = "fail" THEN {"fetch"} ELSE {})

\* the environments in which at most one call fails
OneFaultEnvs == {env \in Envs : Cardinality(Faults(env)) <= 1}

AosFaultEnvs ==
    {QuietEnv, [QuietEnv EXCEPT !.readAos = FALSE], [QuietEnv EXCEPT !.setAos = FALSE]}

\* storage.GetAosVersion returns the stored version and no error
AosRead(id, env) == env.readAos

\* lines 688-692: the module has the requested vendor version
VendorRejects(reported, requested) == requested # "" /\ reported = requested

AosRejectsLower(storedVersion, requested) == storedVersion > requested

\* lines 698-704: the stored aosVersion is the requested one or a higher one
AosRejects(storedVersion, requested) == storedVersion >= requested

StoredVendorDeclared(id, info) == info.vendor

\* line 681: the version prepareComponent hands to storage.SetVendorVersion
StoredVendor(id, info) == componentStatuses[id].vendor

\* prepareComponent: the step at which it returns; res is the answer of
\* module.Prepare
PrepareStep(id, info, env, res) ==
    IF ~env.setVendor THEN "setVendor"
    ELSE IF env.vendorOk /\ VendorRejects(env.vendor, info.vendor) THEN "vendor"
    ELSE IF info.aos # 0 /\ AosRead(id, env) /\ AosRejects(aosStore[id], info.aos)
           THEN IF aosStore[id] = info.aos THEN "sameAos" ELSE "wrongAos"
    ELSE IF env.fetch = "fail" THEN "fetch"
    ELSE IF ~env.check THEN "check"
    ELSE IF res = "error" THEN "module"
    ELSE "done"

\* the error prepareComponent returns at a step
PrepareErr(id, step) ==
    CASE step = "setVendor" -> SetVendorErr(id)
      [] step = "vendor" -> SameVendorErr(id)
      [] step = "sameAos" -> SameAosErr(id)
      [] step = "wrongAos" -> WrongAosErr
      [] step = "fetch" -> DownloadErr(id)
      [] step = "check" -> FileInfoErr(id)
      [] step = "module" -> OperationErr(id)
      [] step = "done" -> NoErr

\* the calls prepareComponent has made when it returns at a step
PrepareHist(h, id, info, env, step) ==
    LET pastVendor == step # "setVendor"
        pastGates == step \in {"fetch", "check", "module", "done"}
        askedAos == step \notin {"setVendor", "vendor"} /\ info.aos # 0 /\ AosRead(id, env)
    IN [h EXCEPT
          !.vendorWritten = IF env.setVendor THEN (id :> StoredVendor(id, info)) @@ @ ELSE @,
          !.vendorSeen = IF pastVendor /\ env.vendorOk THEN (id :> env.vendor) @@ @ ELSE @,
          !.aosSeen = IF askedAos THEN (id :> aosStore[id]) @@ @ ELSE @,
          !.fetched = IF pastGates THEN @ \cup {id} ELSE @,
          !.fetchFailed = IF step \in {"fetch", "check"} THEN @ \cup {id} ELSE @,
          !.prepared = IF step \in {"module", "done"} THEN @ \cup {id} ELSE @]

\* grab leaves the file it has downloaded in handler.downloadDir
Downloaded(dir, id, env, step) ==
    IF step \in {"check", "module", "done"} /\ env.fetch = "ok" THEN dir \cup {id} ELSE dir

WritesAosAlways(ev) == TRUE

\* the callback that calls storage.SetAosVersion
WritesAos(ev) == ev = eventApply

\* if !rebootRequired, after module.Update has returned without error
ChecksVendor(ev, res) == ev = eventUpdate /\ res = "ok"

\* the error the operation of the running pass returns for id when the module
\* answers res: module.Reboot, prepareComponent, the function of onApplyState
\* with its SetAosVersion, the functions of onUpdateState and onRevertState
OperationResult(id, env, res) ==
    IF sched.kind = "reboot" THEN (IF res = "error" THEN RebootErr(id) ELSE NoErr)
    ELSE IF fsmTransition = eventPrepare
           THEN PrepareErr(id, PrepareStep(id, eventArgs[id], env, res))
    ELSE IF res = "error" THEN OperationErr(id)
    ELSE IF WritesAos(fsmTransition) /\ ~env.setAos THEN SetAosErr(id)
    ELSE IF ChecksVendor(fsmTransition, res)
           THEN IF ~env.vendorOk THEN GetVendorErr(id)
                ELSE IF env.vendor # state.ComponentStatuses[id].vendor THEN MismatchErr(id)
                ELSE NoErr
    ELSE NoErr

\* the answers onUpdateState's function has got from the module for id
UpdateHist(h, id, env, res) ==
    LET others == [c \in DOMAIN h.vendorSeen \ {id} |-> h.vendorSeen[c]]
    IN [h EXCEPT !.lastUpdate = (id :> res) @@ @,
                 !.vendorSeen = IF ChecksVendor(eventUpdate, res) /\ env.vendorOk
                                  THEN (id :> env.vendor) @@ others
                                  ELSE others]

\* the status doReboot's operation marks on an error: the closure reads the loop
\* variable componentStatus, which holds the last element of the bucket
RebootErrorTarget(id) == Last(rebootStatuses)

\* what the handler gets from a call of an OverlayModule
ModuleAnswer(m) ==
    IF m.log.err # "" THEN "error" ELSE IF m.log.ret THEN "reboot" ELSE "ok"

\* prepareComponent gets as far as module.Prepare
ReachesModule(id, env) ==
    fsmTransition = eventPrepare => PrepareStep(id, eventArgs[id], env, "ok") = "done"

\* the OverlayModule id after the call the operation of the running pass makes:
\* module.Reboot in doReboot, else the method of the event
ModuleCall(id, type, fault) ==
    IF sched.kind = "reboot" THEN OverlayReboot(overlay[id], fault)
    ELSE CASE fsmTransition = eventPrepare -> OverlayPrepare(overlay[id], type, fault)
           [] fsmTransition = eventUpdate -> OverlayUpdate(overlay[id], fault)
           [] fsmTransition = eventApply -> OverlayApply(overlay[id], fault)
           [] fsmTransition = eventRevert -> OverlayRevert(overlay[id], fault)

\* the module of the operation is an OverlayModule of the model: res is what
\* its method returns
OverlayAnswers(id, env, res) ==
    IF id \notin DOMAIN overlay \/ (sched.kind = "op" /\ ~ReachesModule(id, env))
      THEN UNCHANGED overlay
      ELSE \E fault \in OverlayFaults, type \in UpdateTypes :
              /\ ModuleAnswer(ModuleCall(id, type, fault)) = res
              /\ overlay' = [overlay EXCEPT ![id] = ModuleCall(id, type, fault)]

\* operation() of goroutine i returns. An error: componentError, and the goroutine
\* reads groupErr. rebootRequired: the goroutine reads rebootStatuses for its append.
OpReturn(i) ==
    /\ Running
    /\ i \in 1..Len(sched.ops)
    /\ sched.st[i].st = "run"
    /\ \E res \in Results, env \in cfg.envs :
         LET id == sched.ops[i]
             op == sched.kind = "op"
             err == OperationResult(id, env, res)
             target == IF op THEN id ELSE RebootErrorTarget(id)
             step == PrepareStep(id, eventArgs[id], env, res)
             h1 == IF op /\ fsmTransition = eventPrepare
                     THEN PrepareHist(hist, id, eventArgs[id], env, step)
                   ELSE IF op /\ WritesAos(fsmTransition) /\ res # "error"
                     THEN [hist EXCEPT !.applied = @ \cup {id},
                                       !.written = IF env.setAos THEN @ \cup {id} ELSE @]
                   ELSE IF op /\ fsmTransition = eventUpdate
                     THEN UpdateHist(hist, id, env, res)
                   ELSE hist
         IN /\ OverlayAnswers(id, env, res)
            /\ downloadDir' = IF op /\ fsmTransition = eventPrepare
                                THEN Downloaded(downloadDir, id, env, step)
                                ELSE downloadDir
            /\ vendorStore' = IF op /\ fsmTransition = eventPrepare /\ env.setVendor
                                THEN [vendorStore EXCEPT ![id] = StoredVendor(id, eventArgs[id])]
                                ELSE vendorStore
            /\ aosStore' = IF op /\ WritesAos(fsmTransition) /\ res # "error" /\ env.setAos
                             THEN [aosStore EXCEPT ![id] = state.ComponentStatuses[id].aos]
                             ELSE aosStore
            /\ IF err # NoErr
                 THEN /\ state' = componentError(state, target, err)
                      /\ sched' = [sched EXCEPT !.st[i] =
                                      [st |-> IF sched.groupErr = NoErr THEN "set" ELSE "done",
                                       res |-> "error", loc |-> <<>>, err |-> err]]
                      /\ hist' = HistErr(h1, {id}, err)
                      /\ UNCHANGED rebootLeft
                 ELSE IF res = "reboot"
                   THEN /\ sched' = [sched EXCEPT !.st[i] =
                                        [st |-> "append", res |-> res, loc |-> rebootStatuses,
                                         err |-> NoErr]]
                        /\ rebootLeft' = rebootLeft - 1
                        /\ hist' = [h1 EXCEPT !.nTrue[id] = @ + 1]
                        /\ UNCHANGED state
                   ELSE /\ sched' = [sched EXCEPT !.st[i] =
                                        [st |-> "done", res |-> res, loc |-> <<>>, err |-> NoErr]]
                        /\ hist' = h1
                        /\ UNCHANGED <<state, rebootLeft>>
    /\ UNCHANGED <<cfg, legacy, initTask, componentStatuses, fsmCurrent, fsmTransition, eventArgs, tpc, stored,
                   statusChannel, chk, rebootStatuses, coErr>>

\* rebootStatuses = append(rebootStatuses, status): the write of what was read
AppendWrite(i) ==
    /\ Running
    /\ i \in 1..Len(sched.ops)
    /\ sched.st[i].st = "append"
    /\ rebootStatuses' = Append(sched.st[i].loc, sched.ops[i])
    /\ sched' = [sched EXCEPT !.st[i].st = "done", !.st[i].loc = <<>>]
    /\ UNCHANGED <<cfg, legacy, initTask, overlay, aosStore, vendorStore, componentStatuses, downloadDir, fsmCurrent, fsmTransition, eventArgs, tpc, state, stored, statusChannel,
                   chk, coErr, rebootLeft, hist>>

\* groupErr = err, after groupErr == nil was read
ErrWrite(i) ==
    /\ Running
    /\ i \in 1..Len(sched.ops)
    /\ sched.st[i].st = "set"
    /\ sched' = [sched EXCEPT !.st[i].st = "done", !.groupErr = sched.st[i].err]
    /\ UNCHANGED <<cfg, legacy, initTask, overlay, aosStore, vendorStore, componentStatuses, downloadDir, fsmCurrent, fsmTransition, eventArgs, tpc, state, stored, statusChannel,
                   chk, rebootStatuses, coErr, rebootLeft, hist>>

PassResultLastGroup == sched.groupErr

\* what doPriorityOperations returns after its last wg.Wait(): err, or the error
\* of the last group when no group before it had one
PassResult == IF sched.err = NoErr THEN sched.groupErr ELSE sched.err

\* the last wg.Wait() and the return of doPriorityOperations
PassEnd ==
    /\ Running
    /\ sched.cursor = Len(sched.ops)
    /\ AllDone
    /\ AfterPass(fsmTransition, PassResult)
    /\ UNCHANGED <<cfg, legacy, initTask, overlay, aosStore, vendorStore, componentStatuses, downloadDir, fsmTransition, eventArgs, stored, statusChannel, chk, rebootLeft>>

(***************************************************************************)
(* onStateChanged and sendStatus                                           *)
(***************************************************************************)
SavedUpdateStateEvent == fsmTransition

\* handler.state.UpdateState = handler.fsm.Current()
SavedUpdateState == fsmCurrent

\* the loop of onStateChanged over handler.state.ComponentStatuses on entering idle
PurgeStatuses(statuses) ==
    [id \in {c \in DOMAIN statuses : statuses[c].status = StatusError} |-> statuses[id]]

\* what getVersions is answered for one module under the environments envs
VersionAnswers(envs) ==
    {[vendorOk |-> e.vendorOk, vendor |-> e.vendor, readVendor |-> e.readVendor] : e \in envs}

\* getVersions, lines 360-376: in idle the vendor version is the one the module
\* reports, else the one of the store, and the zero value when the call returns an
\* error. answers: per module, the answers to its calls
getVersions(statuses, updateState, answers) ==
    [id \in DOMAIN statuses |->
        [vendor |-> IF updateState = stateIdle
                      THEN (IF answers[id].vendorOk THEN answers[id].vendor ELSE "")
                      ELSE (IF answers[id].readVendor THEN vendorStore[id] ELSE "")]]

CleansDirAlways(updateState) == TRUE

\* if handler.downloadDir != "", inside the branch of stateIdle
CleansDir(updateState) == updateState = stateIdle /\ cfg.downloadDir

SaveErrorStateKept(updateState) == updateState

\* handler.state.UpdateState = stateFailed, when saveState has returned an error
SaveErrorState(updateState) == stateFailed

\* onStateChanged up to sendStatus; saved: whether storage.SetUpdateState
\* succeeded. os.RemoveAll empties the download directory unless it fails.
StateChanged(saved) ==
    /\ tpc = "changed"
    /\ IF CleansDir(SavedUpdateState)
         THEN \E removed \in cfg.removeAll : downloadDir' = IF removed THEN {} ELSE downloadDir
         ELSE UNCHANGED downloadDir
    /\ IF SavedUpdateState = stateIdle
         THEN \E answers \in [cfg.components -> VersionAnswers(cfg.envs)] :
                 componentStatuses' = getVersions(componentStatuses, stateIdle, answers)
         ELSE UNCHANGED componentStatuses
    /\ LET s1 == [state EXCEPT !.UpdateState = SavedUpdateState]
           s2 == IF s1.UpdateState = stateIdle
                   THEN [s1 EXCEPT !.ComponentStatuses = PurgeStatuses(@)]
                   ELSE s1
       IN IF saved
            THEN /\ stored' = s2
                 /\ state' = s2
                 /\ UNCHANGED fsmCurrent
            ELSE /\ state' = [s2 EXCEPT !.Error = IF @ = NoErr THEN StoreErr ELSE @,
                                        !.UpdateState = SaveErrorState(@)]
                 /\ fsmCurrent' = SaveErrorState(s2.UpdateState)
                 /\ UNCHANGED stored
    /\ tpc' = "send"
    /\ UNCHANGED <<cfg, legacy, initTask, overlay, aosStore, vendorStore, fsmTransition, eventArgs, statusChannel, chk,
                   sched, rebootStatuses, coErr, rebootLeft, hist>>

\* the snapshot sendStatus builds
\* the update statuses sendStatus appends: it ranges over handler.componentStatuses
\* and looks each of its ids up in handler.state.ComponentStatuses
ReportedStatuses(installed, statuses) ==
    [id \in DOMAIN installed \cap DOMAIN statuses |-> statuses[id]]

\* the snapshot sendStatus builds of the handler state st and of the installed
\* component statuses
SnapshotOf(st, installed) ==
    [State |-> st.UpdateState, Error |-> st.Error, Installed |-> installed,
     Components |-> ReportedStatuses(installed, st.ComponentStatuses)]

Snapshot == SnapshotOf(state, componentStatuses)

SendBlocksNever == FALSE

\* handler.statusChannel <- status: the send on the buffered channel blocks
\* while the channel holds statusChannelSize snapshots
SendBlocks == Len(statusChannel) >= statusChannelSize

\* sendStatus: the channel send blocks while the channel is full; with it the
\* callbacks are over and fsm.Transition() clears fsm.transition
SendStatus ==
    /\ tpc = "send"
    /\ ~SendBlocks
    /\ statusChannel' = Append(statusChannel, Snapshot)
    /\ fsmTransition' = "none"
    /\ eventArgs' = NoRequest
    /\ tpc' = "none"
    /\ hist' = [NoHist EXCEPT !.inFlight = hist.inFlight - 1,
                              !.submitted = IF fsmCurrent = stateIdle THEN NoSeen
                                            ELSE hist.submitted,
                              !.before = IF fsmCurrent = stateIdle THEN NoBefore
                                         ELSE hist.before]
    /\ UNCHANGED <<cfg, legacy, initTask, overlay, aosStore, vendorStore, componentStatuses, downloadDir, fsmCurrent, state, stored, chk, sched, rebootStatuses, coErr,
                   rebootLeft>>

\* the controller side reads a snapshot from StatusChannel()
Consume ==
    /\ statusChannel # <<>>
    /\ statusChannel' = Tail(statusChannel)
    /\ UNCHANGED <<cfg, legacy, initTask, overlay, aosStore, vendorStore, componentStatuses, downloadDir, fsmCurrent, fsmTransition, eventArgs, tpc, state, stored, chk,
                   sched, rebootStatuses, coErr, rebootLeft, hist>>

(***************************************************************************)
(* The process is killed (or the system reboots) and started again: New    *)
(***************************************************************************)
\* the steps of a transition that come before its state write
BeforeWrite == tpc \in {"pending", "op", "reboot", "changed"}

\* the submission of the cycle the restarted handler finds itself in
CycleSubmitted ==
    IF LoadState(stored).UpdateState = stateIdle THEN NoSeen ELSE hist.submitted

\* what the stores held before the cycle the restarted handler finds itself in
CycleBefore ==
    IF LoadState(stored).UpdateState = stateIdle THEN NoBefore ELSE hist.before

Restart ==
    /\ state' = LoadState(stored)
    /\ fsmCurrent' = LoadState(stored).UpdateState
    /\ fsmTransition' = "none"
    /\ eventArgs' = NoRequest
    /\ tpc' = "none"
    /\ statusChannel' = <<>>
    /\ chk' = NoCalls
    /\ sched' = NoSched
    /\ rebootStatuses' = <<>>
    /\ coErr' = NoErr
    /\ rebootLeft' = 0
    /\ hist' = IF BeforeWrite
                 THEN [NoHist EXCEPT !.crashedIn = fsmTransition, !.src = hist.src,
                                     !.atAccept = hist.atAccept,
                                     !.rebooted = (rebootLeft < cfg.reboots),
                                     !.submitted = CycleSubmitted,
                                     !.before = CycleBefore]
                 ELSE [NoHist EXCEPT !.submitted = CycleSubmitted, !.before = CycleBefore]
    /\ \E answers \in [cfg.components -> VersionAnswers(cfg.envs)] :
          componentStatuses' =
             getVersions(Installed(cfg.components, ""), LoadState(stored).UpdateState, answers)
    /\ UNCHANGED <<cfg, legacy, initTask, overlay, aosStore, vendorStore, downloadDir, stored>>

(***************************************************************************)
(* Specification                                                           *)
(***************************************************************************)
MaxOps == Cardinality(Modules)

Background ==
    \/ TransitionStart
    \/ Launch
    \/ \E i \in 1..MaxOps : OpReturn(i)
    \/ \E i \in 1..MaxOps : AppendWrite(i)
    \/ \E i \in 1..MaxOps : ErrWrite(i)
    \/ PassEnd
    \/ \E saved \in BOOLEAN : StateChanged(saved)
    \/ SendStatus

Controller ==
    \/ \E e \in Events : SendEventCheck(e)
    \/ \E e \in Events, args \in cfg.requests : SendEventFire(e, args)
    \/ Consume

Next ==
    \/ Controller
    \/ Background
    \/ Restart

Spec == Init /\ [][Next]_vars

\* the life cycle with a controller that has two sendEvent calls in flight
CallInit ==
    /\ cfg = [components |-> {"a"}, reboots |-> MaxLifecycleReboots,
              requests |-> {NoRequest, Request({"a"})}, callers |-> 2,
              envs |-> {QuietEnv}, downloadDir |-> TRUE,
              removeAll |-> {TRUE}]
    /\ stored = EmptyBlob
    /\ state = LoadState(EmptyBlob)
    /\ fsmCurrent = stateIdle
    /\ fsmTransition = "none"
    /\ eventArgs = NoRequest
    /\ tpc = "none"
    /\ initTask = InitOver
    /\ legacy = NoLegacy
    /\ overlay = NoOverlay
    /\ statusChannel = <<>>
    /\ chk = NoCalls
    /\ sched = NoSched
    /\ rebootStatuses = <<>>
    /\ coErr = NoErr
    /\ rebootLeft = 0
    /\ aosStore = NoVersions
    /\ vendorStore = NoVendors
    /\ componentStatuses = Installed(cfg.components, QuietEnv.vendor)
    /\ downloadDir = {}
    /\ hist = NoHist

CallSpec == CallInit /\ [][Next]_vars

(***************************************************************************)
(* The life cycle of one module with aosVersions: the items of the prepare *)
(* requests carry every aosVersion up to MaxAos, and the store may fail to *)
(* return or to write a component's aosVersion.                            *)
(***************************************************************************)
VerRequests ==
    {[id \in {"a"} |-> [aos |-> n, vendor |-> ""]] : n \in 0..MaxAos}

VerInit ==
    /\ cfg = [components |-> {"a"}, reboots |-> MaxLifecycleReboots,
              requests |-> VerRequests, callers |-> 1, envs |-> AosFaultEnvs,
              downloadDir |-> TRUE, removeAll |-> {TRUE}]
    /\ stored = EmptyBlob
    /\ state = LoadState(EmptyBlob)
    /\ fsmCurrent = stateIdle
    /\ fsmTransition = "none"
    /\ eventArgs = NoRequest
    /\ tpc = "none"
    /\ initTask = InitOver
    /\ legacy = NoLegacy
    /\ overlay = NoOverlay
    /\ statusChannel = <<>>
    /\ chk = NoCalls
    /\ sched = NoSched
    /\ rebootStatuses = <<>>
    /\ coErr = NoErr
    /\ rebootLeft = 0
    /\ aosStore = NoVersions
    /\ vendorStore = NoVendors
    /\ componentStatuses = Installed(cfg.components, QuietEnv.vendor)
    /\ downloadDir = {}
    /\ hist = NoHist

\* the handler process is not restarted
VerNext ==
    \/ Controller
    \/ Background

VerSpec == VerInit /\ [][VerNext]_vars

(***************************************************************************)
(* The life cycle of a handler whose one module takes its images from a    *)
(* remote URL: every prepare leaves a file in the configured download      *)
(* directory, os.RemoveAll succeeds, and the process may stop anywhere.    *)
(***************************************************************************)
RemoteEnv == [QuietEnv EXCEPT !.fetch = "ok"]

DirInit ==
    /\ cfg = [components |-> {"a"}, reboots |-> MaxLifecycleReboots,
              requests |-> {Request({"a"})}, callers |-> 1, envs |-> {RemoteEnv},
              downloadDir |-> TRUE, removeAll |-> {TRUE}]
    /\ stored = EmptyBlob
    /\ state = LoadState(EmptyBlob)
    /\ fsmCurrent = stateIdle
    /\ fsmTransition = "none"
    /\ eventArgs = NoRequest
    /\ tpc = "none"
    /\ initTask = InitOver
    /\ legacy = NoLegacy
    /\ overlay = NoOverlay
    /\ statusChannel = <<>>
    /\ chk = NoCalls
    /\ sched = NoSched
    /\ rebootStatuses = <<>>
    /\ coErr = NoErr
    /\ rebootLeft = 0
    /\ aosStore = NoVersions
    /\ vendorStore = NoVendors
    /\ componentStatuses = Installed(cfg.components, RemoteEnv.vendor)
    /\ downloadDir = {}
    /\ hist = NoHist

DirSpec == DirInit /\ [][Next]_vars

(***************************************************************************)
(* The goroutine of handler.init, which New starts and does not wait for,  *)
(* and the goroutine of Registered. Per module, calls is "new" until the   *)
(* operation of init has called module.Init, "init" during that call,      *)
(* "inited" after it, "version" while getVersions has its call of the      *)
(* module under way, and "done" after it.                                  *)
(***************************************************************************)
InitPending(ids) == [calls |-> [id \in ids |-> "new"], registered |-> "no"]

\* doPriorityOperations(operations, false) of init: an operation starts when
\* the operations of the priorities before it have returned
InitCall(id) ==
    /\ id \in DOMAIN initTask.calls
    /\ initTask.calls[id] = "new"
    /\ \A o \in DOMAIN initTask.calls :
          updatePriority[o] > updatePriority[id] => initTask.calls[o] = "inited"
    /\ initTask' = [initTask EXCEPT !.calls[id] = "init"]
    /\ UNCHANGED <<cfg, legacy, overlay, aosStore, vendorStore, componentStatuses, downloadDir,
                   fsmCurrent, fsmTransition, eventArgs, tpc, state, stored, statusChannel,
                   chk, sched, rebootStatuses, coErr, rebootLeft, hist>>

\* module.Init returns
InitReturn(id) ==
    /\ id \in DOMAIN initTask.calls
    /\ initTask.calls[id] = "init"
    /\ initTask' = [initTask EXCEPT !.calls[id] = "inited"]
    /\ UNCHANGED <<cfg, legacy, overlay, aosStore, vendorStore, componentStatuses, downloadDir,
                   fsmCurrent, fsmTransition, eventArgs, tpc, state, stored, statusChannel,
                   chk, sched, rebootStatuses, coErr, rebootLeft, hist>>

\* handler.getVersions() of init, after doPriorityOperations has returned: the
\* loop calls the modules one after the other
VersionCall(id) ==
    /\ id \in DOMAIN initTask.calls
    /\ initTask.calls[id] = "inited"
    /\ \A o \in DOMAIN initTask.calls : initTask.calls[o] \in {"inited", "done"}
    /\ initTask' = [initTask EXCEPT !.calls[id] = "version"]
    /\ UNCHANGED <<cfg, legacy, overlay, aosStore, vendorStore, componentStatuses, downloadDir,
                   fsmCurrent, fsmTransition, eventArgs, tpc, state, stored, statusChannel,
                   chk, sched, rebootStatuses, coErr, rebootLeft, hist>>

\* the call returns and getVersions sets the VendorVersion of the module
VersionReturn(id) ==
    /\ id \in DOMAIN initTask.calls
    /\ initTask.calls[id] = "version"
    /\ initTask' = [initTask EXCEPT !.calls[id] = "done"]
    /\ \E answers \in [cfg.components -> VersionAnswers(cfg.envs)] :
          componentStatuses' =
             [componentStatuses EXCEPT
                 ![id] = getVersions(componentStatuses, state.UpdateState, answers)[id]]
    /\ UNCHANGED <<cfg, legacy, overlay, aosStore, vendorStore, downloadDir,
                   fsmCurrent, fsmTransition, eventArgs, tpc, state, stored, statusChannel,
                   chk, sched, rebootStatuses, coErr, rebootLeft, hist>>

\* initWG.Wait() returns
InitWaitOver == \A id \in DOMAIN initTask.calls : initTask.calls[id] = "done"

\* the controller calls Registered: the goroutine starts and waits for initWG
Registered ==
    /\ initTask.registered = "no"
    /\ initTask' = [initTask EXCEPT !.registered = "waiting"]
    /\ UNCHANGED <<cfg, legacy, overlay, aosStore, vendorStore, componentStatuses, downloadDir,
                   fsmCurrent, fsmTransition, eventArgs, tpc, state, stored, statusChannel,
                   chk, sched, rebootStatuses, coErr, rebootLeft, hist>>

\* the sendStatus of that goroutine
RegisteredSend ==
    /\ initTask.registered = "waiting"
    /\ InitWaitOver
    /\ ~SendBlocks
    /\ statusChannel' = Append(statusChannel, Snapshot)
    /\ initTask' = [initTask EXCEPT !.registered = "sent"]
    /\ UNCHANGED <<cfg, legacy, overlay, aosStore, vendorStore, componentStatuses, downloadDir,
                   fsmCurrent, fsmTransition, eventArgs, tpc, state, stored,
                   chk, sched, rebootStatuses, coErr, rebootLeft, hist>>

InitTask ==
    \/ \E id \in Modules : InitCall(id)
    \/ \E id \in Modules : InitReturn(id)
    \/ \E id \in Modules : VersionCall(id)
    \/ \E id \in Modules : VersionReturn(id)
    \/ Registered
    \/ RegisteredSend

(***************************************************************************)
(* A handler that New has just returned, with the modules a and c: the     *)
(* goroutine of init has made the component statuses and stands before     *)
(* doPriorityOperations, and the controller sends its events at once.      *)
(***************************************************************************)
StartInit ==
    /\ cfg = [components |-> {"a", "c"}, reboots |-> MaxLifecycleReboots,
              requests |-> {Request({"a"})}, callers |-> 1, envs |-> {QuietEnv},
              downloadDir |-> TRUE, removeAll |-> {TRUE}]
    /\ stored = EmptyBlob
    /\ state = LoadState(EmptyBlob)
    /\ fsmCurrent = stateIdle
    /\ fsmTransition = "none"
    /\ eventArgs = NoRequest
    /\ tpc = "none"
    /\ initTask = InitPending(cfg.components)
    /\ legacy = NoLegacy
    /\ overlay = NoOverlay
    /\ statusChannel = <<>>
    /\ chk = NoCalls
    /\ sched = NoSched
    /\ rebootStatuses = <<>>
    /\ coErr = NoErr
    /\ rebootLeft = 0
    /\ aosStore = NoVersions
    /\ vendorStore = NoVendors
    /\ componentStatuses = Installed(cfg.components, "")
    /\ downloadDir = {}
    /\ hist = NoHist

StartNext ==
    \/ Controller
    \/ Background
    \/ InitTask

StartSpec == StartInit /\ [][StartNext]_vars

(***************************************************************************)
(* One OverlayModule and the calls of its interface: Init first, then      *)
(* Prepare, Update, Apply, Revert and Reboot in any order, any one file or *)
(* storage operation failing in a call; the process may stop anywhere and  *)
(* New creates the module again, with or without a boot of the system in   *)
(* between. The handler does not take part.                                *)
(***************************************************************************)
Handler == <<cfg, fsmCurrent, fsmTransition, eventArgs, tpc, state, stored, statusChannel,
             chk, sched, rebootStatuses, coErr, rebootLeft, aosStore, vendorStore,
             componentStatuses, downloadDir, initTask, legacy, hist>>

Initialized(id) == overlay[id].log.call # "new"

ModuleInit(id) ==
    /\ ~Initialized(id)
    /\ \E fault \in OverlayFaults :
          overlay' = [overlay EXCEPT ![id] = OverlayInit(@, fault)]
    /\ UNCHANGED Handler

ModulePrepare(id) ==
    /\ Initialized(id)
    /\ \E fault \in OverlayFaults, type \in UpdateTypes :
          overlay' = [overlay EXCEPT ![id] = OverlayPrepare(@, type, fault)]
    /\ UNCHANGED Handler

ModuleUpdate(id) ==
    /\ Initialized(id)
    /\ \E fault \in OverlayFaults :
          overlay' = [overlay EXCEPT ![id] = OverlayUpdate(@, fault)]
    /\ UNCHANGED Handler

ModuleApply(id) ==
    /\ Initialized(id)
    /\ \E fault \in OverlayFaults :
          overlay' = [overlay EXCEPT ![id] = OverlayApply(@, fault)]
    /\ UNCHANGED Handler

ModuleRevert(id) ==
    /\ Initialized(id)
    /\ \E fault \in OverlayFaults :
          overlay' = [overlay EXCEPT ![id] = OverlayRevert(@, fault)]
    /\ UNCHANGED Handler

\* doReboot calls Reboot of the modules whose operation has just returned
\* rebootRequired
ModuleReboot(id) ==
    /\ Initialized(id)
    /\ overlay[id].log.ret
    /\ \E fault \in OverlayFaults :
          overlay' = [overlay EXCEPT ![id] = OverlayReboot(@, fault)]
    /\ UNCHANGED Handler

\* the process ends and the module is created again
ModuleRestart(id) ==
    /\ \E files \in Booted(overlay[id].files) :
          overlay' = [overlay EXCEPT ![id] = NewOverlay(@.stored, files)]
    /\ UNCHANGED Handler

ModuleStart ==
    /\ overlay = ("a" :> NewOverlay(<<>>, {}))
    /\ cfg = [components |-> {"a"}, reboots |-> 0, requests |-> {}, callers |-> 0,
              envs |-> {QuietEnv}, downloadDir |-> FALSE, removeAll |-> {TRUE}]
    /\ stored = EmptyBlob
    /\ state = LoadState(EmptyBlob)
    /\ fsmCurrent = stateIdle
    /\ fsmTransition = "none"
    /\ eventArgs = NoRequest
    /\ tpc = "none"
    /\ initTask = InitOver
    /\ legacy = NoLegacy
    /\ statusChannel = <<>>
    /\ chk = NoCalls
    /\ sched = NoSched
    /\ rebootStatuses = <<>>
    /\ coErr = NoErr
    /\ rebootLeft = 0
    /\ aosStore = NoVersions
    /\ vendorStore = NoVendors
    /\ componentStatuses = Installed(cfg.components, "")
    /\ downloadDir = {}
    /\ hist = NoHist

ModuleNext ==
    \E id \in DOMAIN overlay :
       \/ ModuleInit(id)
       \/ ModulePrepare(id)
       \/ ModuleUpdate(id)
       \/ ModuleApply(id)
       \/ ModuleRevert(id)
       \/ ModuleReboot(id)
       \/ ModuleRestart(id)

ModuleSpec == ModuleStart /\ [][ModuleNext]_vars

(***************************************************************************)
(* The life cycle of a handler with one module, an OverlayModule whose     *)
(* Init has returned: the installed vendor version is w, the store holds   *)
(* no vendor version and the aosVersion 1, the controller submits version  *)
(* 2, the check of the image file may fail, and any one file or storage    *)
(* operation of the module may fail in a call.                             *)
(***************************************************************************)
InstalledEnv == [QuietEnv EXCEPT !.vendor = "w"]

OverlayStart ==
    /\ overlay = ("a" :> OverlayInit(NewOverlay(<<>>, {}), "none"))
    /\ cfg = [components |-> {"a"}, reboots |-> MaxReboots,
              requests |-> {"a" :> [aos |-> 2, vendor |-> "v"]}, callers |-> 1,
              envs |-> {InstalledEnv, [InstalledEnv EXCEPT !.check = FALSE]},
              downloadDir |-> TRUE, removeAll |-> {TRUE}]
    /\ stored = EmptyBlob
    /\ state = LoadState(EmptyBlob)
    /\ fsmCurrent = stateIdle
    /\ fsmTransition = "none"
    /\ eventArgs = NoRequest
    /\ tpc = "none"
    /\ initTask = InitOver
    /\ legacy = NoLegacy
    /\ statusChannel = <<>>
    /\ chk = NoCalls
    /\ sched = NoSched
    /\ rebootStatuses = <<>>
    /\ coErr = NoErr
    /\ rebootLeft = 0
    /\ aosStore = [NoVersions EXCEPT !["a"] = 1]
    /\ vendorStore = NoVendors
    /\ componentStatuses = Installed(cfg.components, "w")
    /\ downloadDir = {}
    /\ hist = NoHist

OverlayLifeSpec == OverlayStart /\ [][VerNext]_vars

(***************************************************************************)
(* One transition from the moment its event is accepted, with all three    *)
(* modules enabled. The initial states are states of the life cycle in     *)
(* which SendEventFire has just accepted an event:                         *)
(*   prepare on a fresh handler;                                           *)
(*   update after a prepare that succeeded, apply after update succeeded;  *)
(*   revert after either, after a prepare of an unknown id or of an empty  *)
(*   list, and after an update in which module a returned an error;        *)
(*   update after a prepare of a and x that succeeded while x had a module *)
(*   and a restart with a configuration that does not enable x any more.   *)
(***************************************************************************)
Installing(ids) == [id \in ids |-> InstallingStatus(NoInfo)]

Settled(updateState, err, statuses) ==
    [UpdateState |-> updateState, Error |-> err, ComponentStatuses |-> statuses]

AcceptStates ==
    {[event |-> eventPrepare, args |-> r, st |-> LoadState(EmptyBlob)] :
        r \in {NoRequest, Request({"a", "x"}), Request(Modules)}}
    \cup {[event |-> eventUpdate, args |-> NoRequest,
            st |-> Settled(statePrepared, NoErr, Installing(ids))] :
            ids \in {Modules, {"a", UnknownId}}}
    \cup {[event |-> eventApply, args |-> NoRequest,
            st |-> Settled(stateUpdated, NoErr, Installing(Modules))]}
    \cup {[event |-> eventRevert, args |-> NoRequest, st |-> s] :
            s \in {Settled(statePrepared, NoErr, Installing(Modules)),
                    Settled(stateUpdated, NoErr, Installing(Modules)),
                    Settled(stateFailed, EmptyListErr, NoStatuses),
                    Settled(stateFailed, NotFoundErr("x"),
                            [Installing({"a", "x"}) EXCEPT
                                !["x"].status = StatusError,
                                !["x"].error = NotFoundErr("x")]),
                    Settled(stateFailed, OperationErr("a"),
                            [Installing(Modules) EXCEPT
                                !["a"].status = StatusError,
                                !["a"].error = OperationErr("a")])}}

TransInit ==
    \E acc \in AcceptStates, unread \in BOOLEAN :
        /\ cfg = [components |-> Modules, reboots |-> MaxReboots,
                  requests |-> {}, callers |-> 0, envs |-> {QuietEnv}, downloadDir |-> TRUE,
              removeAll |-> {TRUE}]
        /\ aosStore = NoVersions
        /\ vendorStore = NoVendors
        /\ componentStatuses = Installed(cfg.components, QuietEnv.vendor)
        /\ downloadDir = {}
        /\ stored = (IF acc.event = eventPrepare THEN EmptyBlob ELSE acc.st)
        /\ state = acc.st
        /\ fsmCurrent = acc.st.UpdateState
        /\ fsmTransition = acc.event
        /\ eventArgs = acc.args
        /\ tpc = "pending"
        /\ initTask = InitOver
        /\ legacy = NoLegacy
        /\ overlay = NoOverlay
        /\ statusChannel = (IF unread
                              THEN <<SnapshotOf(acc.st, Installed(cfg.components, QuietEnv.vendor))>>
                              ELSE <<>>)
        /\ chk = NoCalls
        /\ sched = NoSched
        /\ rebootStatuses = <<>>
        /\ coErr = NoErr
        /\ rebootLeft = MaxReboots
        /\ hist = [AcceptHist(acc.event, NoHist, acc.st) EXCEPT
                      !.submitted = Submitted(IF acc.event = eventPrepare THEN acc.args
                                              ELSE acc.st.ComponentStatuses)]

TransNext ==
    \/ Background
    \/ Consume

TransSpec == TransInit /\ [][TransNext]_vars

\* every step of the goroutines is eventually taken, and the controller reads
\* the status channel
TransFairSpec == TransSpec /\ WF_vars(Background) /\ WF_vars(Consume)

(***************************************************************************)
(* One prepare transition of the modules a and b, which share an update    *)
(* priority, from the moment its event is accepted: the item of a carries  *)
(* every aosVersion up to MaxAos, one of them with a vendor version, the   *)
(* store holds every aosVersion up to MaxAos for a, and any one call of    *)
(* the store, of the module and of the download may fail in an operation.  *)
(* And the revert after a prepare that failed on the file of a, with the   *)
(* files it left behind, the download directory configured or not.         *)
(***************************************************************************)
PrepRequests ==
    {("a" :> info) @@ ("b" :> [aos |-> 1, vendor |-> ""]) :
        info \in [aos : 0..MaxAos, vendor : {""}] \cup {[aos |-> 1, vendor |-> "v"]}}

FailedOnFile ==
    Settled(stateFailed, FileInfoErr("a"),
            ("a" :> [status |-> StatusError, error |-> FileInfoErr("a"), aos |-> 1, vendor |-> ""])
               @@ ("b" :> InstallingStatus([aos |-> 1, vendor |-> ""])))

PrepAcceptStates ==
    {[event |-> eventPrepare, args |-> r, st |-> LoadState(EmptyBlob),
      store |-> [NoVersions EXCEPT !["a"] = n], files |-> {}, dir |-> TRUE] :
        r \in PrepRequests, n \in 0..MaxAos}
    \cup {[event |-> eventRevert, args |-> NoRequest, st |-> FailedOnFile,
           store |-> NoVersions, files |-> f, dir |-> d] :
              f \in {{"a"}, {"a", "b"}}, d \in BOOLEAN}

PrepInit ==
    \E acc \in PrepAcceptStates :
        /\ cfg = [components |-> {"a", "b"}, reboots |-> MaxReboots,
                  requests |-> {}, callers |-> 0, envs |-> OneFaultEnvs,
                  downloadDir |-> acc.dir, removeAll |-> BOOLEAN]
        /\ aosStore = acc.store
        /\ vendorStore = (IF acc.event = eventPrepare THEN NoVendors
                          ELSE [NoVendors EXCEPT !["a"] = "w", !["b"] = "w"])
        /\ componentStatuses = Installed(cfg.components, "w")
        /\ downloadDir = acc.files
        /\ stored = (IF acc.event = eventPrepare THEN EmptyBlob ELSE acc.st)
        /\ state = acc.st
        /\ fsmCurrent = acc.st.UpdateState
        /\ fsmTransition = acc.event
        /\ eventArgs = acc.args
        /\ tpc = "pending"
        /\ initTask = InitOver
        /\ legacy = NoLegacy
        /\ overlay = NoOverlay
        /\ statusChannel = <<>>
        /\ chk = NoCalls
        /\ sched = NoSched
        /\ rebootStatuses = <<>>
        /\ coErr = NoErr
        /\ rebootLeft = MaxReboots
        /\ hist = [AcceptHist(acc.event, NoHist, acc.st) EXCEPT
                      !.submitted = Submitted(IF acc.event = eventPrepare THEN acc.args
                                              ELSE acc.st.ComponentStatuses)]

PrepSpec == PrepInit /\ [][TransNext]_vars

(***************************************************************************)
(* One update transition of the modules a and b, prepared for the vendor   *)
(* versions v and w, from the moment its event is accepted: the modules    *)
(* ask for reboots, fail, and report v, w or nothing as their version.     *)
(***************************************************************************)
PreparedForVersions ==
    Settled(statePrepared, NoErr,
            ("a" :> InstallingStatus([aos |-> 1, vendor |-> "v"]))
               @@ ("b" :> InstallingStatus([aos |-> 1, vendor |-> "w"])))

UpdInit ==
    \E unread \in BOOLEAN :
        /\ cfg = [components |-> {"a", "b"}, reboots |-> MaxReboots,
                  requests |-> {}, callers |-> 0, envs |-> OneFaultEnvs,
                  downloadDir |-> TRUE, removeAll |-> {TRUE}]
        /\ aosStore = NoVersions
        /\ vendorStore = [NoVendors EXCEPT !["a"] = "w", !["b"] = "w"]
        /\ componentStatuses = Installed(cfg.components, "w")
        /\ downloadDir = {"a", "b"}
        /\ stored = PreparedForVersions
        /\ state = PreparedForVersions
        /\ fsmCurrent = statePrepared
        /\ fsmTransition = eventUpdate
        /\ eventArgs = NoRequest
        /\ tpc = "pending"
        /\ initTask = InitOver
        /\ legacy = NoLegacy
        /\ overlay = NoOverlay
        /\ statusChannel = (IF unread
                              THEN <<SnapshotOf(PreparedForVersions,
                                                Installed(cfg.components, "w"))>>
                              ELSE <<>>)
        /\ chk = NoCalls
        /\ sched = NoSched
        /\ rebootStatuses = <<>>
        /\ coErr = NoErr
        /\ rebootLeft = MaxReboots
        /\ hist = [AcceptHist(eventUpdate, NoHist, PreparedForVersions) EXCEPT
                      !.submitted = Submitted(PreparedForVersions.ComponentStatuses)]

UpdSpec == UpdInit /\ [][TransNext]_vars

TypeOK ==
    /\ fsmCurrent \in States
    /\ fsmTransition \in Events \cup {"none"}
    /\ tpc \in {"none", "pending", "op", "reboot", "changed", "send"}
    /\ CallsInFlight <= cfg.callers
    /\ Len(statusChannel) <= statusChannelSize
    /\ rebootLeft \in 0..cfg.reboots

(***************************************************************************)
(* Properties                                                              *)
(***************************************************************************)

\* everything but the bookkeeping of the sendEvent calls under way
Program == <<cfg, fsmCurrent, fsmTransition, eventArgs, tpc, state, stored, statusChannel,
             sched, rebootStatuses, coErr, rebootLeft, aosStore, vendorStore,
             componentStatuses, downloadDir, initTask, overlay, legacy, hist>>

\* the states in which the coordinator is said to accept each event
LegalStates(e) ==
    CASE e = eventPrepare -> {stateIdle}
      [] e = eventUpdate -> {statePrepared}
      [] e = eventApply -> {stateUpdated}
      [] e = eventRevert -> {statePrepared, stateUpdated, stateFailed}

\* C1: prepare is accepted only in Idle, update only in Prepared, apply only in
\* Updated, revert only in Prepared, Updated or Failed. A sendEvent call of an event
\* in any other FSM state returns its error and changes nothing: the FSM state, the
\* handler state, the stored blob and the component statuses stay as they are, no
\* transition is set up and no module operation is invoked.
C1_EventLegality ==
    [][\A e \in Events :
          fsmCurrent \notin LegalStates(e) =>
             /\ SendEventCheck(e) => UNCHANGED vars
             /\ \A args \in cfg.requests : SendEventFire(e, args) => UNCHANGED Program]_vars

\* a prepare call that passed fsm.Cannot in Idle stands before fsm.Event while the
\* transition of another call has settled in Prepared
C1_Witness ==
    /\ chk[eventPrepare] > 0
    /\ fsmCurrent = statePrepared
    /\ fsmTransition = "none"

\* C2: at most one transition is in progress at any moment. From the acceptance of
\* an event until its transition has settled every sendEvent call is refused: it
\* sets up no second transition and changes nothing.
C2_OneTransition ==
    /\ [](hist.inFlight <= 1 /\ (hist.inFlight = 1 <=> fsmTransition # "none"))
    /\ [][fsmTransition # "none" =>
            \A e \in Events :
               /\ SendEventCheck(e) => UNCHANGED vars
               /\ \A args \in cfg.requests : SendEventFire(e, args) => UNCHANGED Program]_vars

\* an event has been accepted and its goroutine not yet run, and a second call
\* that passed fsm.Cannot before stands at fsm.Event
C2_Witness ==
    /\ tpc = "pending"
    /\ CallsInFlight > 0

\* C3: the stored updateState is at every moment one of idle, prepared, updated and
\* failed, or the blob is still the empty one of a fresh database, which reads as
\* idle; no event, storage failure or restart makes the store hold anything else.
C3_StoredStateSettled ==
    \/ stored = EmptyBlob
    \/ stored.UpdateState \in States

\* a state write has failed after the update was stored: the handler is Failed
\* and the store still holds updated
C3_Witness ==
    /\ stored.UpdateState = stateUpdated
    /\ fsmCurrent = stateFailed
    /\ tpc = "none"

\* the components of a status set whose operation the scheduler starts first
TopGroup(statuses) ==
    {c \in DOMAIN statuses \cap Components :
        \A d \in DOMAIN statuses \cap Components : updatePriority[c] >= updatePriority[d]}

\* C4: after a restart that interrupted a prepare or an update before its state
\* write, the FSM state is the state the event was accepted in (idle for prepare,
\* prepared for update), the stored and the loaded component statuses are those of
\* that state, and the same event can be sent again. The transition of the event
\* sent again runs from its beginning: when it ends, the module operation of every
\* component of its first priority group has been invoked again. A crash after a
\* rebootRequired answer to update is one of these restarts and leaves prepared.
C4_CrashBeforeWrite ==
    /\ hist.crashedIn \in {eventPrepare, eventUpdate} =>
          /\ hist.src = (IF hist.crashedIn = eventPrepare THEN stateIdle ELSE statePrepared)
          /\ fsmCurrent = hist.src
          /\ state.UpdateState = hist.src
          /\ LoadState(stored).UpdateState = hist.src
          /\ stored.ComponentStatuses = hist.atAccept
          /\ state.ComponentStatuses = hist.atAccept
          /\ Can(hist.crashedIn)
    /\ (hist.retry /\ fsmTransition \in {eventPrepare, eventUpdate}) =>
          /\ hist.src = (IF fsmTransition = eventPrepare THEN stateIdle ELSE statePrepared)
          /\ (tpc \in {"changed", "send"} /\ fsmTransition = eventUpdate) =>
                (hist.invoked # {} /\ TopGroup(hist.atAccept) \subseteq hist.invoked)
          /\ (tpc \in {"changed", "send"} /\ fsmTransition = eventPrepare
                 /\ eventArgs # NoRequest /\ DOMAIN eventArgs \subseteq Components) =>
                (hist.invoked # {} /\ TopGroup(eventArgs) \subseteq hist.invoked)

\* the process was killed in an update after a module had answered rebootRequired;
\* the update sent again after the restart has invoked both modules and succeeded
C4_Witness ==
    /\ hist.retry
    /\ hist.rebooted
    /\ fsmTransition = eventUpdate
    /\ tpc = "send"
    /\ fsmCurrent = stateUpdated
    /\ hist.invoked = {"a", "c"}

\* the coordinator has settled in Failed
SettledFailed == fsmCurrent = stateFailed /\ fsmTransition = "none"

\* C7 as stated: once settled in Failed the state stays Failed, also across
\* restarts, until a revert is accepted; prepare, update and apply are refused;
\* the revert accepted in Failed settles in idle.
C7_AsStated ==
    /\ [][SettledFailed =>
            (fsmCurrent' = stateFailed /\ fsmTransition' \in {"none", eventRevert})]_vars
    /\ []((fsmTransition = eventRevert /\ hist.src = stateFailed /\ tpc = "send") =>
            fsmCurrent = stateIdle)

\* C7: once settled in Failed the handler stays Failed while the process runs until
\* a revert is accepted; prepare, update and apply are refused. A restart leaves
\* Failed only when the stored updateState is not failed, that is when the write of
\* the Failed state had failed. The revert accepted in Failed settles in idle when
\* its state write succeeds and in Failed when that write fails.
C7_FailedSticky ==
    /\ [][SettledFailed =>
            \/ fsmCurrent' = stateFailed /\ fsmTransition' \in {"none", eventRevert}
            \/ Restart /\ stored.UpdateState # stateFailed]_vars
    /\ [][(fsmTransition = eventRevert /\ hist.src = stateFailed /\ tpc = "changed") =>
            /\ StateChanged(TRUE) =>
                  (fsmCurrent' = stateIdle /\ stored'.UpdateState = stateIdle)
            /\ StateChanged(FALSE) =>
                  (fsmCurrent' = stateFailed /\ stored' = stored)]_vars
    /\ []((fsmTransition = eventRevert /\ hist.src = stateFailed /\ tpc = "send") =>
            fsmCurrent \in {stateIdle, stateFailed})

\* a revert accepted in Failed has settled in idle and idle is stored
C7_Witness ==
    /\ fsmTransition = eventRevert
    /\ hist.src = stateFailed
    /\ tpc = "send"
    /\ fsmCurrent = stateIdle
    /\ stored.UpdateState = stateIdle

(***************************************************************************)
(* Properties of one transition and of the scheduler                       *)
(***************************************************************************)
OpIndex == 1..Len(sched.ops)

\* the goroutine of operation i has been started; operation() of it has returned
Started(i) == sched.st[i].st # "new"
Returned(i) == sched.st[i].res # "none"

\* the operations of the running pass that returned an error, and their errors
ErrOps == {i \in OpIndex : sched.st[i].res = "error"}

OpErr(i) == sched.st[i].err

\* doPriorityOperations returns with this step
PassReturns == Running /\ tpc' # tpc

\* C9: in a pass of doPriorityOperations an operation is started only after every
\* operation of a higher priority has returned, and the pass returns only after
\* every operation it started has returned. (Operations of one priority are in
\* flight together: the witness.)
C9_PriorityBarrier ==
    /\ [](Running =>
            \A i, j \in OpIndex :
               (OpPriority(i) > OpPriority(j) /\ Started(j)) => Returned(i))
    /\ [][PassReturns => \A i \in OpIndex : Started(i) => Returned(i)]_vars

\* a reboot pass over three components: the reboot of a, of the higher priority,
\* has returned, those of b and c are in flight at the same time
C9_Witness ==
    /\ tpc = "reboot"
    /\ \E i, j, k \in OpIndex :
          /\ OpPriority(i) > OpPriority(j)
          /\ OpPriority(j) = OpPriority(k)
          /\ j # k
          /\ sched.st[i].st = "done"
          /\ sched.st[j].st = "run"
          /\ sched.st[k].st = "run"

\* C10: in a pass with stopOnError (prepare and update), once an operation has
\* returned an error no operation of a lower priority is ever started; when the
\* pass returns, every operation of the failing group has run to its end, and the
\* error the pass returns, which the callback stores as the global error, is the
\* error of an operation of that group.
C10_StopOnError ==
    /\ []((Running /\ StopOnError(fsmTransition)) =>
            \A i \in ErrOps : \A j \in OpIndex :
               OpPriority(j) < OpPriority(i) => ~Started(j))
    /\ [][(PassReturns /\ StopOnError(fsmTransition) /\ ErrOps # {}) =>
            /\ \A i \in ErrOps : \A j \in OpIndex :
                  OpPriority(j) = OpPriority(i) => sched.st[j].st = "done"
            /\ tpc' = "changed"
            /\ state'.Error \in {OpErr(i) : i \in ErrOps}]_vars

\* update: the operation of a has returned an error, that of b, of the same
\* priority, is still running, that of c has not been started
C10_Witness ==
    /\ tpc = "op"
    /\ fsmTransition = eventUpdate
    /\ \E i, j, k \in OpIndex :
          /\ sched.st[i].res = "error"
          /\ OpPriority(j) = OpPriority(i)
          /\ sched.st[j].st = "run"
          /\ OpPriority(k) < OpPriority(i)
          /\ sched.st[k].st = "new"

\* C5 as stated: when a prepare or an update in which some component returned an
\* error ends, the FSM is in failed, the global error is not empty and the status
\* of every component that returned an error is Error; after an error no operation
\* of a lower priority is started.
C5_AsStated ==
    /\ (StopOnError(fsmTransition) /\ tpc \in {"changed", "send"} /\ hist.errComps # {}) =>
          /\ fsmCurrent = stateFailed
          /\ state.Error # NoErr
          /\ \A c \in hist.errComps :
                /\ c \in DOMAIN state.ComponentStatuses
                /\ state.ComponentStatuses[c].status = StatusError
    /\ (Running /\ StopOnError(fsmTransition)) =>
          \A i \in ErrOps : \A j \in OpIndex :
             OpPriority(j) < OpPriority(i) => ~Started(j)

\* C6 as stated: when the callback of an apply or a revert has ended, the FSM is
\* in idle, the operation of every component with a module has been invoked, the
\* global error is the first error collected, and the status of every component
\* that returned an error is Error with an error of that component.
C6_AsStated ==
    (fsmTransition \in {eventApply, eventRevert} /\ tpc = "changed") =>
       /\ fsmCurrent = stateIdle
       /\ (DOMAIN hist.atAccept \cap Components) \subseteq hist.invoked
       /\ state.Error = hist.firstErr
       /\ \A c \in hist.errComps :
             /\ c \in DOMAIN state.ComponentStatuses
             /\ state.ComponentStatuses[c].status = StatusError
             /\ state.ComponentStatuses[c].error \in
                    {NotFoundErr(c), OperationErr(c), RebootErr(c)}

\* C8 as stated: when the transition has ended the FSM is in the destination state
\* of the event or in failed, and that state is the stored one.
C8_AsStated ==
    /\ tpc = "send" => fsmCurrent \in {EventDst(fsmTransition), stateFailed}
    /\ tpc \in {"send", "none"} => stored.UpdateState = fsmCurrent

\* C8: with goroutines that keep running, modules that answer rebootRequired a
\* bounded number of times and a controller that reads the status channel, the
\* transition of an accepted event ends. When it ends the FSM and the handler state
\* are in the destination state of the event or in failed, the stored state is that
\* state unless the state write failed (then the FSM is in failed and the store
\* keeps the blob it had), the snapshot of that state is in the status channel, and
\* every event of the FSM table for that state can be sent.
C8_Settles ==
    /\ (fsmTransition # "none") ~> (fsmTransition = "none")
    /\ [][(fsmTransition # "none" /\ fsmTransition' = "none") =>
            /\ fsmCurrent' \in {EventDst(fsmTransition), stateFailed}
            /\ state'.UpdateState = fsmCurrent'
            /\ stored'.UpdateState = fsmCurrent' \/ fsmCurrent' = stateFailed
            /\ statusChannel' # <<>>
            /\ Last(statusChannel').State = fsmCurrent'
            /\ Last(statusChannel').Error = state'.Error
            /\ \A e \in Events : fsmCurrent' \in EventSrc(e) => Can(e)']_vars
    /\ [][tpc = "changed" =>
            /\ StateChanged(TRUE) => (stored' = state' /\ stored'.UpdateState = fsmCurrent')
            /\ StateChanged(FALSE) => (stored' = stored /\ fsmCurrent' = stateFailed)]_vars

\* an update that went through the reboot loop has ended in updated and its
\* snapshot waits in the status channel
C8_Witness ==
    /\ fsmTransition = "none"
    /\ tpc = "none"
    /\ rebootLeft < MaxReboots
    /\ fsmCurrent = stateUpdated
    /\ stored.UpdateState = stateUpdated
    /\ Len(statusChannel) = 1
    /\ statusChannel[1].State = stateUpdated
    /\ statusChannel[1].Error = NoErr

\* the pass stands at its last wg.Wait() with every goroutine done
AtPassEnd == Running /\ sched.cursor = Len(sched.ops) /\ AllDone

\* the operations that returned an error in the first group that had one
FirstErrGroup == {i \in ErrOps : \A j \in ErrOps : OpPriority(i) >= OpPriority(j)}

\* C11: in a pass without stopOnError (apply and revert) every step of the loop
\* starts the next operation, one that has not been started, whatever errors were
\* returned before; at the end of the pass every operation has been executed, and
\* the error the pass returns is nil exactly when no operation returned an error
\* and otherwise the error of an operation of the highest-priority group in which
\* an operation returned one.
C11_RunAll ==
    /\ [][(Running /\ ~StopOnError(fsmTransition) /\ Launch) =>
            /\ sched'.cursor = sched.cursor + 1
            /\ sched.st[sched'.cursor].st = "new"
            /\ sched'.st[sched'.cursor].st = "run"]_vars
    /\ []((AtPassEnd /\ ~StopOnError(fsmTransition)) =>
            /\ \A i \in OpIndex : sched.st[i].st = "done" /\ Returned(i)
            /\ (PassResult = NoErr) <=> (ErrOps = {})
            /\ ErrOps # {} => PassResult \in {OpErr(i) : i \in FirstErrGroup})

\* the end of an apply or revert pass in which an operation of each of the two
\* priorities returned an error
C11_Witness ==
    /\ AtPassEnd
    /\ ~StopOnError(fsmTransition)
    /\ \E i, j \in ErrOps : OpPriority(i) > OpPriority(j)

\* C12 as stated: once an operation of a group has set the error of the group, no
\* operation of that group that fails later overwrites it.
C12_AsStated ==
    [][(Running /\ sched.groupErr # NoErr /\ tpc' = tpc
           /\ sched'.priority = sched.priority) =>
          sched'.groupErr = sched.groupErr]_vars

\* an update has ended in updated
UpdateDone ==
    /\ fsmTransition = eventUpdate
    /\ tpc \in {"changed", "send"}
    /\ fsmCurrent = stateUpdated

\* C13 as stated, for an update that ended in updated: module.Update of every
\* component of the update has been invoked once more than it answered
\* rebootRequired=true.
C13_AsStated ==
    UpdateDone =>
       \A c \in DOMAIN hist.atAccept \cap Components :
          hist.nOp[c] = hist.nTrue[c] + 1

\* C14 as stated, for an update that ended in updated: a module whose update
\* answered rebootRequired=true once has seen two invocations of update and one of
\* reboot.
C14_AsStated ==
    UpdateDone =>
       \A c \in DOMAIN hist.atAccept \cap Components :
          hist.nTrue[c] = 1 => (hist.nOp[c] = 2 /\ hist.nReboot[c] = 1)

\* C15 as stated: a reboot pass starts and ends the reboot of every component of
\* the bucket whatever errors module.Reboot returns, and the transition goes on
\* with the next pass of its operation.
C15_AsStated ==
    [][(tpc = "reboot" /\ PassReturns) =>
          /\ \A i \in OpIndex : sched.st[i].st = "done"
          /\ tpc' = "op"]_vars

\* C15: the reboot pass is scheduled with the stopOnError of the transition. In
\* apply and revert an error of module.Reboot is kept as the error of the
\* transition when it is the first, every reboot of the bucket is run and the
\* transition goes on with the next pass of its operation. In update an error of
\* module.Reboot lets no reboot of a lower priority start and ends the transition
\* in failed with an error of a failing reboot as the global error.
C15_RebootErrors ==
    [][(tpc = "reboot" /\ PassReturns) =>
          IF StopOnError(fsmTransition) /\ ErrOps # {}
            THEN /\ \A i \in ErrOps : \A j \in OpIndex :
                       OpPriority(j) < OpPriority(i) => ~Started(j)
                 /\ tpc' = "changed"
                 /\ fsmCurrent' = stateFailed
                 /\ state'.Error \in {OpErr(i) : i \in ErrOps}
            ELSE /\ \A i \in OpIndex : sched.st[i].st = "done"
                 /\ tpc' = "op"
                 /\ fsmCurrent' = fsmCurrent
                 /\ coErr' = (IF coErr = NoErr THEN PassResult ELSE coErr)]_vars

\* update: the reboot of a has failed and its goroutine is done, the reboot of b,
\* of a lower priority, has not been started, and the pass is about to return
C15_Witness ==
    /\ tpc = "reboot"
    /\ fsmTransition = eventUpdate
    /\ AllDone
    /\ sched.groupErr # NoErr
    /\ \E i \in ErrOps : \E j \in OpIndex :
          OpPriority(j) < OpPriority(i) /\ ~Started(j)

\* C20: once the callback of a prepare or an update has met statuses with an id
\* that has no module, the transition is over and in failed, and no module
\* operation has been invoked, for the components with a module either.
C20_UnknownModule ==
    (fsmTransition \in {eventPrepare, eventUpdate} /\ tpc # "pending"
        /\ DOMAIN state.ComponentStatuses \ Components # {}) =>
       /\ tpc \in {"changed", "send"}
       /\ fsmCurrent = stateFailed
       /\ state.Error # NoErr
       /\ sched = NoSched
       /\ hist.invoked = {}
       /\ hist.nOp = NoCount

\* a prepare of a, which has a module, and of x, which has none, has ended
C20_Witness ==
    /\ fsmTransition = eventPrepare
    /\ tpc = "send"
    /\ DOMAIN state.ComponentStatuses = {"a", UnknownId}
    /\ fsmCurrent = stateFailed
    /\ state.Error = NotFoundErr(UnknownId)
    /\ hist.invoked = {}

\* an apply transition whose callbacks are over
ApplyDone == fsmTransition = eventApply /\ tpc \in {"changed", "send"}

C17_AsStated ==
    [][\A c \in DOMAIN aosStore : aosStore'[c] >= aosStore[c]]_vars

\* a prepare transition whose callbacks are over
PrepareDone == fsmTransition = eventPrepare /\ tpc \in {"changed", "send"}

\* module.GetVendorVersion has returned the non-empty vendor version of c's item
SawSameVendor(c) ==
    /\ eventArgs[c].vendor # ""
    /\ c \in DOMAIN hist.vendorSeen
    /\ hist.vendorSeen[c] = eventArgs[c].vendor

\* storage.GetAosVersion has returned the non-zero aosVersion of c's item or a
\* higher one; a higher one
SawAosNotBelow(c) ==
    /\ eventArgs[c].aos # 0
    /\ c \in DOMAIN hist.aosSeen
    /\ hist.aosSeen[c] >= eventArgs[c].aos

SawDowngrade(c) == SawAosNotBelow(c) /\ hist.aosSeen[c] > eventArgs[c].aos

\* C18 as stated: for an item whose non-empty vendor version the module reports as
\* its own, or whose non-zero aosVersion is equal to or lower than the stored one,
\* prepare settles in Failed, with an error containing "wrong Aos version" (that of
\* the state or that of the component) when the aosVersion is lower, no image is
\* fetched and module.Prepare is not called for the component.
C18_AsStated ==
    PrepareDone =>
       \A c \in DOMAIN eventArgs :
          (SawSameVendor(c) \/ (eventArgs[c].aos # 0 /\ eventArgs[c].aos <= aosStore[c])) =>
             /\ fsmCurrent = stateFailed
             /\ c \notin hist.fetched \cup hist.prepared
             /\ (eventArgs[c].aos # 0 /\ eventArgs[c].aos < aosStore[c]) =>
                    WrongAosErr \in {state.Error, state.ComponentStatuses[c].error}

\* C18: for an item of a prepare request, if the module reports the item's
\* non-empty vendor version as its current one, or the store returns without error
\* an aosVersion equal to or higher than the item's non-zero aosVersion, then no
\* image is fetched and module.Prepare is not called for the component, its status
\* is Error, and prepare settles in Failed with an error. The component's error is
\* "wrong Aos version" when the version the store returned is higher, and so is the
\* error of the state when no other component had an error.
C18_VersionGate ==
    fsmTransition = eventPrepare =>
       \A c \in DOMAIN eventArgs :
          (SawSameVendor(c) \/ SawAosNotBelow(c)) =>
             /\ c \notin hist.fetched \cup hist.prepared
             /\ c \notin downloadDir
             /\ state.ComponentStatuses[c].status = StatusError
             /\ SawDowngrade(c) => state.ComponentStatuses[c].error = WrongAosErr
             /\ PrepareDone =>
                   /\ fsmCurrent = stateFailed
                   /\ state.Error # NoErr
                   /\ (SawDowngrade(c) /\ hist.errComps = {c}) => state.Error = WrongAosErr

\* a prepare has failed on the downgrade of a while module.Prepare of b was called
C18_Witness ==
    /\ PrepareDone
    /\ SawDowngrade("a")
    /\ fsmCurrent = stateFailed
    /\ state.Error = WrongAosErr
    /\ "a" \notin hist.prepared
    /\ "b" \in hist.prepared

\* C19: if downloadImage or image.CheckFileInfo returns an error for the item of
\* a component, module.Prepare is not called for that component, its status is
\* Error and prepare settles in Failed with an error; and no file leaves the
\* download directory except in the onStateChanged of an entry to idle.
C19_FetchFailure ==
    /\ [](fsmTransition = eventPrepare =>
            \A c \in hist.fetchFailed :
               /\ c \in hist.fetched
               /\ c \notin hist.prepared
               /\ state.ComponentStatuses[c].status = StatusError
               /\ state.ComponentStatuses[c].error \in {DownloadErr(c), FileInfoErr(c)}
               /\ PrepareDone => (fsmCurrent = stateFailed /\ state.Error # NoErr))
    /\ [][downloadDir \subseteq downloadDir'
             \/ (tpc = "changed" /\ tpc' = "send" /\ fsmCurrent = stateIdle)]_vars

\* a prepare has settled in Failed on the file of a, which is still in the
\* download directory, and module.Prepare of a was not called
C19_Witness ==
    /\ PrepareDone
    /\ tpc = "send"
    /\ fsmCurrent = stateFailed
    /\ state.Error = FileInfoErr("a")
    /\ "a" \in hist.fetchFailed
    /\ "a" \notin hist.prepared
    /\ "a" \in downloadDir

\* C21 as stated: the coordinator settles in Updated only if, for every component
\* of the in-flight set, the last module.Update returned rebootRequired=false
\* without error and module.GetVendorVersion then returned, without error, the
\* vendor version requested for the component.
C21_AsStated ==
    (fsmTransition = eventUpdate /\ tpc \in {"changed", "send"} /\ fsmCurrent = stateUpdated) =>
       \A c \in DOMAIN state.ComponentStatuses :
          /\ c \in DOMAIN hist.lastUpdate
          /\ hist.lastUpdate[c] = "ok"
          /\ c \in DOMAIN hist.vendorSeen
          /\ hist.vendorSeen[c] = state.ComponentStatuses[c].vendor

\* C22 as stated: the version the first step of prepareComponent writes to the
\* vendor-version store for an item's id is the vendor version the item declares.
C22_AsStated ==
    fsmTransition = eventPrepare =>
       \A c \in DOMAIN hist.vendorWritten : vendorStore[c] = eventArgs[c].vendor

\* C22: the version the first step of prepareComponent writes to the vendor-version
\* store for an item's id is the VendorVersion handler.componentStatuses holds for
\* the component, the version of the installed module; and the vendor-version
\* store changes in no other step.
C22_StoresInstalled ==
    /\ [](fsmTransition = eventPrepare =>
            \A c \in DOMAIN hist.vendorWritten :
               /\ vendorStore[c] = componentStatuses[c].vendor
               /\ hist.vendorWritten[c] = componentStatuses[c].vendor)
    /\ [][\A c \in DOMAIN vendorStore :
             vendorStore'[c] # vendorStore[c] =>
                /\ fsmTransition = eventPrepare /\ tpc = "op"
                /\ c \in DOMAIN hist'.vendorWritten]_vars

\* a prepare whose item of a declares v has written w, the installed version
C22_Witness ==
    /\ PrepareDone
    /\ "a" \in DOMAIN hist.vendorWritten
    /\ eventArgs["a"].vendor = "v"
    /\ componentStatuses["a"].vendor = "w"
    /\ vendorStore["a"] = "w"

\* C23 as stated: whenever no transition is in progress and the update state in
\* memory and in the store is idle, the download directory holds no file.
C23_AsStated ==
    (tpc = "none" /\ fsmTransition = "none" /\ state.UpdateState = stateIdle
        /\ LoadState(stored).UpdateState = stateIdle) => downloadDir = {}

\* C24 as stated: the onStateChanged of an entry to idle keeps of
\* handler.state.ComponentStatuses exactly the entries whose status is Error, and
\* what it saves is the map so purged; the map then stays as it is, in memory and
\* in the store, until an onPrepareState replaces it; and the snapshot published
\* on the entry to idle carries every entry that was kept.
C24_AsStated ==
    /\ [][(tpc = "changed" /\ tpc' = "send" /\ fsmCurrent = stateIdle) =>
             /\ state'.ComponentStatuses = PurgeStatuses(state.ComponentStatuses)
             /\ stored' # stored => stored'.ComponentStatuses = state'.ComponentStatuses]_vars
    /\ []((fsmCurrent = stateIdle /\ tpc \in {"send", "none"}) =>
             /\ stored.ComponentStatuses = state.ComponentStatuses
             /\ \A c \in DOMAIN state.ComponentStatuses :
                   state.ComponentStatuses[c].status = StatusError)
    /\ [][(tpc = "send" /\ tpc' = "none" /\ fsmCurrent = stateIdle) =>
             statusChannel'[Len(statusChannel')].Components = state.ComponentStatuses]_vars

\* C26 as stated: when a transition has settled, handler.state.Error is empty
\* in Idle, Prepared and Updated, and not empty in Failed.
C26_AsStated ==
    (tpc = "none" /\ fsmTransition = "none") =>
       /\ state.UpdateState \in {stateIdle, statePrepared, stateUpdated} => state.Error = NoErr
       /\ state.UpdateState = stateFailed => state.Error # NoErr

\* C26: once the callback of a transition is over, handler.state.Error is empty
\* in Prepared and Updated and not empty in Failed; in Idle, entered by an apply
\* or a revert, it is empty unless an operation of that apply or revert
\* returned an error; and the snapshot of the transition carries it.
C26_ErrorOfLastTransition ==
    /\ []((tpc \in {"send", "none"}) =>
            /\ fsmCurrent \in {statePrepared, stateUpdated} => state.Error = NoErr
            /\ fsmCurrent = stateFailed => state.Error # NoErr
            /\ (tpc = "send" /\ fsmCurrent = stateIdle) =>
                  /\ fsmTransition \in {eventApply, eventRevert}
                  /\ state.Error # NoErr => hist.errComps # {})
    /\ [][(tpc = "send" /\ tpc' = "none") =>
             /\ state' = state
             /\ Last(statusChannel').Error = state.Error]_vars

\* a revert in which a module returned an error has settled in Idle, and the
\* error is in the handler state and in the store
C26_Witness ==
    /\ tpc = "none"
    /\ fsmTransition = "none"
    /\ fsmCurrent = stateIdle
    /\ state.UpdateState = stateIdle
    /\ state.Error = OperationErr("a")
    /\ stored.UpdateState = stateIdle
    /\ stored.Error = OperationErr("a")

\* C27 as stated: sendStatus never has to wait: when it comes to publish its
\* snapshot, the status channel takes it at once.
C27_AsStated == tpc = "send" => Len(statusChannel) < statusChannelSize

\* C27: the status channel is a queue of statusChannelSize snapshots: sendStatus
\* appends its snapshot behind the ones not yet read and drops or replaces none,
\* the controller reads the oldest first, and while the channel is full
\* sendStatus waits, the transition staying in progress, until the controller
\* has read.
C27_BlockingQueue ==
    /\ [](Len(statusChannel) <= statusChannelSize)
    /\ [][statusChannel' # statusChannel =>
             \/ /\ tpc = "send" /\ tpc' = "none"
                /\ Len(statusChannel) < statusChannelSize
                /\ statusChannel' = Append(statusChannel, SnapshotOf(state, componentStatuses))
             \/ /\ statusChannel # <<>>
                /\ statusChannel' = Tail(statusChannel)
                /\ tpc' = tpc]_vars
    /\ [][(tpc = "send" /\ Len(statusChannel) = statusChannelSize) =>
             (tpc' = "send" /\ fsmTransition' = fsmTransition /\ state' = state)]_vars

\* sendStatus waits with the snapshot of a revert that ended in idle while the
\* snapshot of the transition before is still unread in the channel
C27_Witness ==
    /\ tpc = "send"
    /\ fsmTransition = eventRevert
    /\ state.UpdateState = stateIdle
    /\ Len(statusChannel) = statusChannelSize
    /\ statusChannel[1].State # stateIdle

\* the modules on which a call of the goroutine of init is under way, and those
\* on which an operation of the transition is
InitCalls == {id \in DOMAIN initTask.calls : initTask.calls[id] \in {"init", "version"}}

TransitionCalls == {sched.ops[i] : i \in {j \in 1..Len(sched.ops) : sched.st[j].st = "run"}}

\* C28 as stated: no module has a call of init (module.Init or the
\* GetVendorVersion of getVersions) and an operation of a transition under way
\* at the same time.
C28_AsStated == InitCalls \cap TransitionCalls = {}

\* the step is the return of the call named call of module a
Called(call) ==
    /\ overlay'["a"].log.tick # overlay["a"].log.tick
    /\ overlay'["a"].log.call = call

\* the errors of a call that are errors of a file or storage operation
FaultErrors ==
    {"version file", "save state", "remove failed flag", "clear update dir", "rename",
     "write do_update", "write do_apply", "annotations", "rebooter"}

C30_AsStated ==
    [][(Called("reboot") /\ overlay'["a"].log.invoked) => overlay["a"].log.requested]_vars

\* the module state getState loads from what the module storage holds
LoadedState(blob) == IF blob = <<>> THEN ZeroModuleState ELSE blob[1]

\* the callback of a revert is over, the first revert of a cycle that had no
\* update and no apply
RevertedPrepare ==
    /\ fsmTransition = eventRevert
    /\ tpc = "send"
    /\ hist.before.pure

\* C25 as stated: when a revert has followed the prepare of its cycle, the stored
\* aosVersion and the stored vendor version of every id and the stored update
\* state of every module are what they were when the prepare was accepted.
C25_AsStated ==
    RevertedPrepare =>
       /\ aosStore = hist.before.aos
       /\ vendorStore = hist.before.vendor
       /\ \A id \in DOMAIN overlay :
             LoadedState(overlay[id].stored).UpdateState
                = LoadedState(hist.before.module[id]).UpdateState

\* C25: when the first revert of a cycle has followed its prepare, the stored
\* aosVersion of every id is what it was when the prepare was accepted; a stored
\* vendor version that is not, is the one of a submitted component and holds the
\* VendorVersion of handler.componentStatuses, which the prepare has written; and
\* if the revert has left no error, the stored state of every module is what it
\* was, or is idle with its UpdateType or the type of an image.
C25_RevertedPrepare ==
    RevertedPrepare =>
       /\ aosStore = hist.before.aos
       /\ \A c \in DOMAIN vendorStore :
             vendorStore[c] # hist.before.vendor[c] =>
                /\ c \in DOMAIN hist.submitted
                /\ vendorStore[c] = componentStatuses[c].vendor
       /\ state.Error = NoErr =>
             \A id \in DOMAIN overlay :
                LET now == LoadedState(overlay[id].stored)
                    was == LoadedState(hist.before.module[id])
                IN \/ now = was
                   \/ /\ now.UpdateState = idleState
                      /\ now.UpdateType \in {was.UpdateType} \cup UpdateTypes

\* a revert has followed a prepare that succeeded: no vendor version was stored
\* for a, now it is w, the installed one, and the stored module state of a, which
\* there was none, is idle with the type of the image
C25_Witness ==
    /\ RevertedPrepare
    /\ hist.src = statePrepared
    /\ fsmCurrent = stateIdle
    /\ state.Error = NoErr
    /\ hist.before.vendor["a"] = ""
    /\ vendorStore["a"] = "w"
    /\ aosStore["a"] = 1
    /\ hist.before.module["a"] = <<>>
    /\ overlay["a"].stored = <<[UpdateState |-> idleState, RebootRequest |-> FALSE,
                                UpdateType |-> "full"]>>

\* C34 as stated: when the pass of the operations stands at its last wg.Wait()
\* with every goroutine done, the reboot bucket holds exactly the components
\* whose operation returned rebootRequired=true without error, each once.
C34_AsStated ==
    (AtPassEnd /\ sched.kind = "op") =>
       /\ Range(rebootStatuses) = {sched.ops[i] : i \in {j \in OpIndex : sched.st[j].res = "reboot"}}
       /\ Len(rebootStatuses) = Cardinality(Range(rebootStatuses))

\* C35 as stated: when module.Reboot of the component of operation i returns an
\* error in a reboot pass, the status of that component is set to Error with the
\* error, and the status of no other component changes.
C35_AsStated ==
    [][\A i \in OpIndex :
          (tpc = "reboot" /\ sched.st[i].res = "none" /\ sched'.st[i].res = "error") =>
             /\ state'.ComponentStatuses[sched.ops[i]].status = StatusError
             /\ state'.ComponentStatuses[sched.ops[i]].error = RebootErr(sched.ops[i])
             /\ \A c \in DOMAIN state.ComponentStatuses \ {sched.ops[i]} :
                   state'.ComponentStatuses[c] = state.ComponentStatuses[c]]_vars

\* C36 as stated: the snapshot sendStatus publishes carries an entry for every
\* id of handler.state.ComponentStatuses, with the status the state holds for it.
C36_AsStated ==
    [][(tpc = "send" /\ Len(statusChannel') = Len(statusChannel) + 1) =>
          \A c \in DOMAIN state.ComponentStatuses :
             /\ c \in DOMAIN Last(statusChannel').Components
             /\ Last(statusChannel').Components[c] = state.ComponentStatuses[c]]_vars

\* no event is being processed: no transition of the fsm is under way
NoTransition == fsmTransition = "none" /\ tpc = "none"

\* C37 as stated: whenever no transition is in progress, the current state of the
\* fsm, handler.state.UpdateState and the updateState the store holds are equal,
\* the store of a fresh database reading as idle.
C37_AsStated ==
    NoTransition =>
       /\ fsmCurrent = state.UpdateState
       /\ LoadState(stored).UpdateState = fsmCurrent

\* C37: whenever no transition is in progress, the current state of the fsm and
\* handler.state.UpdateState are equal; the updateState the store holds is equal to
\* them too, or they are failed with an error recorded, the store holding what
\* was written last: a state write that succeeds stores the state the handler
\* settles in, one that fails leaves the store as it was.
C37_StoreFollows ==
    /\ [](NoTransition =>
             /\ fsmCurrent = state.UpdateState
             /\ \/ LoadState(stored).UpdateState = fsmCurrent
                \/ fsmCurrent = stateFailed /\ state.Error # NoErr)
    /\ [][tpc = "changed" =>
             /\ StateChanged(TRUE) =>
                   (stored'.UpdateState = fsmCurrent' /\ state'.UpdateState = fsmCurrent')
             /\ StateChanged(FALSE) =>
                   (stored' = stored /\ fsmCurrent' = stateFailed
                       /\ state'.UpdateState = stateFailed)]_vars

\* the write of the prepared state has failed: the transition is over, the fsm and
\* the handler state are failed with the error of the store, the store holds no
\* state yet
C37_Witness ==
    /\ NoTransition
    /\ fsmCurrent = stateFailed
    /\ state.UpdateState = stateFailed
    /\ state.Error = StoreErr
    /\ stored = EmptyBlob

(***************************************************************************)
(* The handlers of the version-based API: Upgrade(version, image) and      *)
(* Revert(version) start an operation a goroutine carries out, the outcome *)
(* is sent on the status channel. Two handlers have this API: the state    *)
(* machine handler (operation states idle, init, upgrade, revert, cancel,  *)
(* finish, kept with the module states in one stored record) and the stage *)
(* handler (operation states Upgraded, Upgrading, Reverted, Reverting, and *)
(* a storage of module statuses). legacy.kind says which one the run has.  *)
(* States and stages are written by the names their String() gives them.   *)
(***************************************************************************)
MaxVersion == 2
MaxLegacyCalls == 2
MaxLegacyRestarts == 1
MaxLegacyReboots == 1
MaxLegacyFaults == 1
MaxWorkers == 2

\* the modules given to New, and the update items of the metadata of the image
LegacyModules == {"m1", "m2"}
UpdateItems == <<"m1", "m2">>

\* umprotocol.SuccessStatus, umprotocol.FailedStatus
SuccessStatus == "success"
FailedStatus == "failed"

Workers == 1..MaxWorkers

\* a goroutine slot with no goroutine in it
NoWorker == [op |-> "none", pc |-> "off", stage |-> "Init", seen |-> {}, reboot |-> FALSE,
             err |-> ""]

\* the goroutine go handler.upgrade() or go handler.revert() starts
NewWorker(op, stage) == [NoWorker EXCEPT !.op = op, !.pc = "loop", !.stage = stage]

\* the handler state json.Unmarshal gives for the empty record of a new database
ZeroMachineState ==
    [OperationType |-> "upgrade", OperationState |-> "idle", OperationStage |-> "Init",
     OperationVersion |-> 0, LastError |-> "", ModuleStates |-> << >>]

ZeroStageState == [ZeroMachineState EXCEPT !.OperationState = "Upgraded"]

\* handler.state.ModuleStates[id]: the zero value for an id the map has not
ModuleStateOf(s, id) ==
    IF id \in DOMAIN s.ModuleStates THEN s.ModuleStates[id] ELSE "invalid"

\* what the properties read: the last call of the API and its answer, what the
\* handler held when it was made, and what has happened in the operation since
NoLegacyLog ==
    [call |-> "none", version |-> 0, err |-> "", before |-> << >>, unpackFailed |-> FALSE,
     moduleFailed |-> FALSE, switchFailed |-> FALSE, resumed |-> FALSE, again |-> FALSE,
     accepted |-> "none", requested |-> 0, start |-> 0]

\* the free goroutine slots
FreeSlots(l) == {w \in Workers : l.workers[w].pc = "off"}

\* go handler.upgrade() or go handler.revert(): the goroutine takes a free slot
Go(l, op, stage) ==
    LET w == CHOOSE x \in FreeSlots(l) : \A y \in FreeSlots(l) : x <= y
    IN [l EXCEPT !.workers[w] = NewWorker(op, stage)]

\* the operation the stored state has New or init resume
ResumedOp(kind, s) ==
    IF kind = "machine"
      THEN (IF s.OperationState = "idle" THEN "none" ELSE s.OperationType)
      ELSE CASE s.OperationState = "Upgrading" -> "upgrade"
             [] s.OperationState = "Reverting" -> "revert"
             [] OTHER -> "none"

\* New: the current version is the one of the platform, the state the stored one,
\* the channel is new. The stage handler starts the goroutine of an operation
\* under way at once, the state machine handler leaves it to its init goroutine.
NewLegacy(kind, platformVersion, blob, statuses, left, log) ==
    LET l == [kind |-> kind, platformVersion |-> platformVersion,
              currentVersion |-> platformVersion, state |-> blob, stored |-> blob,
              moduleStatuses |-> statuses, statusChannel |-> << >>, lock |-> 0,
              initDone |-> kind = "stage", workers |-> [w \in Workers |-> NoWorker],
              left |-> left,
              log |-> [log EXCEPT !.call = "none", !.version = 0, !.err = "",
                                  !.before = << >>,
                                  !.resumed = ResumedOp(kind, blob) # "none"]]
    IN IF kind = "stage" /\ ResumedOp(kind, blob) # "none"
         THEN Go(l, ResumedOp(kind, blob), blob.OperationStage)
         ELSE l

\* everything of the run but the handler of the version-based API
Coordinator == <<cfg, fsmCurrent, fsmTransition, eventArgs, tpc, state, stored, statusChannel,
                 chk, sched, rebootStatuses, coErr, rebootLeft, aosStore, vendorStore,
                 componentStatuses, downloadDir, initTask, overlay, hist>>

\* an operation of the storage, of the file system or of the platform fails
\* while the run has a failure left
Outcomes(l) == IF l.left.faults > 0 THEN {TRUE, FALSE} ELSE {TRUE}

Faulted(l, ok) == IF ok THEN l ELSE [l EXCEPT !.left.faults = @ - 1]

\* setState: the stored record becomes the state, unless the storage fails
SetState(l, saved) == IF saved THEN [l EXCEPT !.stored = l.state] ELSE l

\* the answer and the ghost of a call of the API
Answer(l, before, call, version, err) ==
    [l EXCEPT !.left.calls = @ - 1,
              !.log.call = call, !.log.version = version, !.log.err = err,
              !.log.before = <<before.currentVersion, before.state, before.stored,
                               before.platformVersion, before.workers>>]

\* an Upgrade or a Revert has been accepted: what the properties read of the
\* operation starts anew
Accepted(l, op, version) ==
    [l EXCEPT !.log.unpackFailed = FALSE, !.log.moduleFailed = FALSE,
              !.log.switchFailed = FALSE, !.log.resumed = FALSE, !.log.again = FALSE,
              !.log.accepted = op, !.log.requested = version,
              !.log.start = l.currentVersion]

\* the API takes the mutex, and the state machine handler waits for init there
ApiReady(l) == l.lock = 0 /\ l.initDone /\ l.left.calls > 0 /\ FreeSlots(l) # {}

Versions == 0..MaxVersion

VersionRejectedBelow(version, current) == version < current

\* if version <= handler.currentVersion, the first test of Upgrade
VersionRejected(version, current) == version <= current

\* Upgrade of the state machine handler. check: image.CheckFileInfo succeeds;
\* saved: setState does
UpgradeM(l, version, check, saved) ==
    IF VersionRejected(version, l.currentVersion)
      THEN Answer(l, l, "upgrade", version, "wrong upgrade version")
    ELSE IF l.state.OperationState # "idle"
      THEN Answer(l, l, "upgrade", version, "wrong state")
    ELSE IF ~check
      THEN Answer(Faulted(l, FALSE), l, "upgrade", version, "file info")
    ELSE
      LET l1 == [l EXCEPT !.state = [@ EXCEPT !.OperationState = "init",
                                              !.OperationVersion = version,
                                              !.OperationType = "upgrade",
                                              !.LastError = "",
                                              !.ModuleStates = << >>]]
      IN IF ~saved
           THEN Answer(Faulted(l1, FALSE), l, "upgrade", version, "storage")
           ELSE Answer(Accepted(Go(SetState(l1, TRUE), "upgrade", "Init"), "upgrade", version),
                       l, "upgrade", version, "")

\* Revert of the state machine handler: the version is all it tests
RevertM(l, version, saved) ==
    IF version >= l.currentVersion
      THEN Answer(l, l, "revert", version, "wrong revert version")
    ELSE
      LET l1 == [l EXCEPT !.state = [@ EXCEPT !.OperationState = "init",
                                              !.OperationVersion = version,
                                              !.OperationType = "revert",
                                              !.LastError = ""]]
      IN IF ~saved
           THEN Answer(Faulted(l1, FALSE), l, "revert", version, "storage")
           ELSE Answer(Accepted(Go(SetState(l1, TRUE), "revert", "Init"), "revert", version),
                       l, "revert", version, "")

\* Upgrade of the stage handler. cleared: storage.ClearModuleStatuses succeeds
UpgradeS(l, version, check, cleared, saved) ==
    IF VersionRejected(version, l.currentVersion)
      THEN Answer(l, l, "upgrade", version, "wrong update version")
    ELSE IF l.state.OperationState \notin {"Reverted", "Upgraded"}
      THEN Answer(l, l, "upgrade", version, "wrong state")
    ELSE IF l.state.OperationState = "Reverted" /\ l.state.LastError # ""
      THEN Answer(l, l, "upgrade", version, "can't upgrade after failed revert")
    ELSE IF ~check
      THEN Answer(Faulted(l, FALSE), l, "upgrade", version, "file info")
    ELSE IF ~cleared
      THEN Answer(Faulted(l, FALSE), l, "upgrade", version, "storage")
    ELSE
      LET l1 == [l EXCEPT !.moduleStatuses = << >>,
                          !.state = [@ EXCEPT !.OperationVersion = version,
                                              !.OperationState = "Upgrading",
                                              !.OperationStage = "Init",
                                              !.LastError = ""]]
      IN IF ~saved
           THEN Answer(Faulted(l1, FALSE), l, "upgrade", version, "storage")
           ELSE Answer(Accepted(Go(SetState(l1, TRUE), "upgrade", "Init"), "upgrade", version),
                       l, "upgrade", version, "")

\* Revert of the stage handler
RevertS(l, version, saved) ==
    IF ~(l.state.OperationState = "Upgraded" /\ l.state.LastError = "")
      THEN Answer(l, l, "revert", version, "wrong state")
    ELSE
      LET l1 == [l EXCEPT !.state = [@ EXCEPT !.OperationVersion = version,
                                              !.OperationState = "Reverting",
                                              !.OperationStage = "Init",
                                              !.LastError = ""]]
      IN IF ~saved
           THEN Answer(Faulted(l1, FALSE), l, "revert", version, "storage")
           ELSE Answer(Accepted(Go(SetState(l1, TRUE), "revert", "Init"), "revert", version),
                       l, "revert", version, "")

\* the calls of the API
MachineUpgrade(version) ==
    /\ legacy.kind = "machine"
    /\ ApiReady(legacy)
    /\ \E check, saved \in Outcomes(legacy) : legacy' = UpgradeM(legacy, version, check, saved)
    /\ UNCHANGED Coordinator

MachineRevert(version) ==
    /\ legacy.kind = "machine"
    /\ ApiReady(legacy)
    /\ \E saved \in Outcomes(legacy) : legacy' = RevertM(legacy, version, saved)
    /\ UNCHANGED Coordinator

StageUpgrade(version) ==
    /\ legacy.kind = "stage"
    /\ ApiReady(legacy)
    /\ \E check, cleared, saved \in Outcomes(legacy) :
          legacy' = UpgradeS(legacy, version, check, cleared, saved)
    /\ UNCHANGED Coordinator

StageRevert(version) ==
    /\ legacy.kind = "stage"
    /\ ApiReady(legacy)
    /\ \E saved \in Outcomes(legacy) : legacy' = RevertS(legacy, version, saved)
    /\ UNCHANGED Coordinator

\* switchState of the state machine handler: under the mutex the state and the
\* error are set and saved; when the save fails it calls finishOperation, which
\* takes the mutex the goroutine holds: the goroutine waits there for itself
SwitchState(l, w, s, err, saved) ==
    LET l1 == [l EXCEPT !.state.OperationState = s, !.state.LastError = err]
    IN IF saved THEN SetState(l1, TRUE)
       ELSE [Faulted(l1, FALSE) EXCEPT !.state.LastError = IF err # "" THEN "storage" ELSE "",
                                       !.lock = w,
                                       !.workers[w].pc = "locked",
                                       !.log.switchFailed = TRUE]

\* finishOperation, up to the send on the status channel, which it does with the
\* mutex taken. set: platform.SetVersion succeeds; saved: setState does
FinishOperation(l, w, err, set, saved) ==
    LET cur == IF err = "" THEN l.state.OperationVersion ELSE l.currentVersion
        l1 == [Faulted(l, set /\ saved) EXCEPT
                  !.currentVersion = cur,
                  !.platformVersion = IF set THEN cur ELSE @,
                  !.state.OperationState = "idle",
                  !.state.LastError = err]
    IN [SetState(l1, saved) EXCEPT
           !.lock = w,
           !.workers[w].pc = "send",
           !.workers[w].err = IF err # "" THEN FailedStatus ELSE SuccessStatus]

\* what a module answers to Upgrade, Revert, CancelUpgrade, CancelRevert:
\* rebootRequired while the run has a reboot left
ModuleResults(l) == IF l.left.reboots > 0 THEN {"ok", "reboot", "error"} ELSE {"ok", "error"}

\* setModuleState: the state of the module is set, and saved unless the storage fails
SetModuleState(l, id, ms, saved) ==
    SetState(Faulted([l EXCEPT !.state.ModuleStates =
                         [x \in DOMAIN @ \cup {id} |-> IF x = id THEN ms ELSE @[x]]], saved),
             saved)

\* the module a pass of upgradeModules or revertModules comes to next: the update
\* items in their order, the module states in the order of the map
NextModules(l, w) ==
    IF l.workers[w].op = "upgrade"
      THEN LET rest == SelectSeq(UpdateItems, LAMBDA id : id \notin l.workers[w].seen)
           IN IF rest = << >> THEN {} ELSE {Head(rest)}
      ELSE DOMAIN l.state.ModuleStates \ l.workers[w].seen

\* upgradeModules and revertModules at one module: it is skipped when it is in
\* the state done already; else its state is set, the module is called, and its
\* state is set again unless it asks for a reboot. An error ends the pass.
ModuleStep(l, w, id, res, saved1, saved2) ==
    LET doing == IF l.workers[w].op = "upgrade" THEN "upgrading" ELSE "reverting"
        done == IF l.workers[w].op = "upgrade" THEN "upgraded" ELSE "reverted"
        l0 == [l EXCEPT !.workers[w].seen = @ \cup {id}]
        l1 == SetModuleState(l0, id, doing, saved1)
        called == [l1 EXCEPT !.log.again =
                      @ \/ (l.workers[w].op = "upgrade"
                              /\ ModuleStateOf(l.stored, id) = "upgraded")]
    IN IF ModuleStateOf(l.state, id) = done THEN l0
       ELSE IF ~saved1
         THEN [l1 EXCEPT !.workers[w].err = "storage", !.workers[w].pc = "after"]
       ELSE IF res = "error"
         THEN [called EXCEPT !.workers[w].err = "module", !.workers[w].pc = "after",
                             !.log.moduleFailed = TRUE]
       ELSE IF res = "reboot"
         THEN [called EXCEPT !.workers[w].reboot = TRUE, !.left.reboots = @ - 1]
       ELSE IF ~saved2
         THEN [SetModuleState(called, id, done, FALSE) EXCEPT
                  !.workers[w].err = "storage", !.workers[w].pc = "after"]
       ELSE SetModuleState(called, id, done, TRUE)

\* the modules cancelUpgradeModules and cancelRevertModules do not skip
CancelModules(l, w) ==
    {id \in DOMAIN l.state.ModuleStates :
        l.state.ModuleStates[id] \notin
           (IF l.workers[w].op = "upgrade" THEN {"canceled"} ELSE {"upgraded", "canceled"})}

\* cancelUpgradeModules and cancelRevertModules: every error is logged only; a
\* module that asks for a reboot stays canceling, the others are canceled
CancelStep(l, w, res, saved) ==
    LET reboot == \E id \in DOMAIN res : res[id] = "reboot"
        ms == [id \in DOMAIN l.state.ModuleStates |->
                  IF id \in DOMAIN res
                    THEN (IF res[id] = "reboot" THEN "canceling" ELSE "canceled")
                    ELSE l.state.ModuleStates[id]]
        l1 == SetState(Faulted([l EXCEPT !.state.ModuleStates = ms], saved), saved)
    IN IF reboot
         THEN [l1 EXCEPT !.workers[w].pc = "reboot", !.left.reboots = @ - 1]
         ELSE [l1 EXCEPT !.workers[w].pc = "finish", !.workers[w].err = l.state.LastError]

\* the goroutine of init of the state machine handler: an operation the stored
\* state has under way gets its goroutine, and wg.Done() lets the API in
MachineInit ==
    /\ legacy.kind = "machine"
    /\ ~legacy.initDone
    /\ legacy' = [(IF ResumedOp("machine", legacy.state) = "none" THEN legacy
                   ELSE Go(legacy, ResumedOp("machine", legacy.state), "Init"))
                    EXCEPT !.initDone = TRUE]
    /\ UNCHANGED Coordinator

\* one turn of the loop of upgrade() or revert() of the state machine handler,
\* by handler.state.OperationState; in a state the switch has no case for the
\* goroutine goes round the loop
MachineLoop(w) ==
    LET l == legacy
        me == l.workers[w]
        s == l.state.OperationState
    IN /\ l.kind = "machine"
       /\ me.pc = "loop"
       /\ l.lock = 0
       /\ \/ /\ s = "init" /\ me.op = "upgrade"
             /\ \E unpacked \in Outcomes(l) :
                   \E saved \in Outcomes(Faulted(l, unpacked)) :
                      legacy' = IF unpacked
                                  THEN SwitchState(l, w, "upgrade", "", saved)
                                  ELSE SwitchState([Faulted(l, FALSE) EXCEPT
                                                       !.log.unpackFailed = TRUE],
                                                   w, "finish", "unpack", saved)
          \/ /\ s = "init" /\ me.op = "revert"
             /\ \E saved \in Outcomes(l) : legacy' = SwitchState(l, w, "revert", "", saved)
          \/ /\ s = me.op
             /\ \E checked \in (IF me.op = "upgrade" THEN Outcomes(l) ELSE {TRUE}) :
                   legacy' = IF checked
                               THEN [l EXCEPT !.workers[w].pc = "modules",
                                              !.workers[w].seen = {},
                                              !.workers[w].reboot = FALSE,
                                              !.workers[w].err = ""]
                               ELSE [Faulted(l, FALSE) EXCEPT !.workers[w].pc = "after",
                                                              !.workers[w].reboot = FALSE,
                                                              !.workers[w].err = "metadata"]
          \/ /\ s = "cancel"
             /\ \E res \in [CancelModules(l, w) -> ModuleResults(l)], saved \in Outcomes(l) :
                   legacy' = CancelStep(l, w, res, saved)
          \/ /\ s = "finish"
             /\ \E finished \in (IF DOMAIN l.state.ModuleStates = {} THEN {TRUE}
                                 ELSE Outcomes(l)) :
                   legacy' = [Faulted(l, finished) EXCEPT
                                 !.workers[w].pc = "finish",
                                 !.workers[w].err = IF finished THEN "" ELSE "finish module"]
       /\ UNCHANGED Coordinator

\* upgradeModules and revertModules of the state machine handler at their next
\* module, and at the end of their loop
MachineModule(w) ==
    LET l == legacy
    IN /\ l.kind = "machine"
       /\ l.workers[w].pc = "modules"
       /\ l.lock = 0
       /\ IF NextModules(l, w) = {}
            THEN legacy' = [l EXCEPT !.workers[w].pc = "after"]
            ELSE \E id \in NextModules(l, w), res \in ModuleResults(l),
                    saved1, saved2 \in Outcomes(l) :
                    legacy' = ModuleStep(l, w, id, res, saved1, saved2)
       /\ UNCHANGED Coordinator

\* upgrade() and revert() after upgradeModules and revertModules have returned:
\* an error leads to cancel, a reboot asked for to platform.SystemReboot, else
\* the state is finish
MachineAfter(w) ==
    LET l == legacy
        me == l.workers[w]
    IN /\ l.kind = "machine"
       /\ me.pc = "after"
       /\ l.lock = 0
       /\ IF me.err # ""
            THEN \E saved \in Outcomes(l) :
                    legacy' = SwitchState([l EXCEPT !.workers[w].pc = "loop"], w, "cancel",
                                          me.err, saved)
          ELSE IF me.reboot
            THEN legacy' = [l EXCEPT !.workers[w].pc = "reboot"]
          ELSE \E saved \in Outcomes(l) :
                  legacy' = SwitchState([l EXCEPT !.workers[w].pc = "loop"], w, "finish", "",
                                        saved)
       /\ UNCHANGED Coordinator

\* finishOperation of the state machine handler
MachineFinish(w) ==
    /\ legacy.kind = "machine"
    /\ legacy.workers[w].pc = "finish"
    /\ legacy.lock = 0
    /\ \E set, saved \in Outcomes(legacy) :
          legacy' = FinishOperation(legacy, w, legacy.workers[w].err, set, saved)
    /\ UNCHANGED Coordinator

\* handler.statusChannel <- status, the last statement of finishOperation and of
\* operationFinished: the goroutine holds the mutex until the channel has room
LegacySend(w) ==
    /\ legacy # NoLegacy
    /\ legacy.workers[w].pc = "send"
    /\ Len(legacy.statusChannel) < statusChannelSize
    /\ legacy' = [legacy EXCEPT !.statusChannel = Append(@, legacy.workers[w].err),
                                !.lock = 0,
                                !.workers[w] = NoWorker]
    /\ UNCHANGED Coordinator

\* the process ends and New creates the handler again from what is stored
Recreated(l) ==
    NewLegacy(l.kind, l.platformVersion, l.stored, l.moduleStatuses, l.left, l.log)

\* platform.SystemReboot(): the system reboots, or the call fails and the
\* goroutine returns
MachineReboot(w) ==
    /\ legacy.kind = "machine"
    /\ legacy.workers[w].pc = "reboot"
    /\ \E rebooted \in Outcomes(legacy) :
          legacy' = IF rebooted THEN Recreated(legacy)
                    ELSE [Faulted(legacy, FALSE) EXCEPT !.workers[w] = NoWorker]
    /\ UNCHANGED Coordinator

\* the process is stopped at any moment and started again
LegacyRestart ==
    /\ legacy # NoLegacy
    /\ legacy.left.restarts > 0
    /\ legacy' = Recreated([legacy EXCEPT !.left.restarts = @ - 1])
    /\ UNCHANGED Coordinator

\* the client reads a status from StatusChannel()
LegacyConsume ==
    /\ legacy # NoLegacy
    /\ legacy.statusChannel # << >>
    /\ legacy' = [legacy EXCEPT !.statusChannel = Tail(@)]
    /\ UNCHANGED Coordinator

\* the outcomes of n operations that can fail, as many failing as the run has left
FaultsOf(l, n) ==
    {f \in [1..n -> BOOLEAN] : Cardinality({i \in 1..n : ~f[i]}) <= l.left.faults}

\* operationFinished of the stage handler, up to the send on the status channel:
\* the state is newState, the error of the operation is not put into the state.
\* set: platform.SetVersion succeeds; saved: setState does
OperationFinished(l, w, newState, err, set, saved) ==
    LET cur == IF err = "" THEN l.state.OperationVersion ELSE l.currentVersion
        l1 == [Faulted(Faulted(l, set), saved) EXCEPT
                  !.currentVersion = cur,
                  !.platformVersion = IF set THEN cur ELSE @,
                  !.state.OperationState = newState]
    IN [SetState(l1, saved) EXCEPT
           !.lock = w,
           !.workers[w].pc = "send",
           !.workers[w].err = IF err # "" THEN FailedStatus ELSE SuccessStatus]

\* the end of a turn of the loop of upgrade(stage) and revert(stage): stage is
\* the local variable, the state is saved, and a failure of the save finishes the
\* operation in upgradedState. f: the save, then SetVersion and the save of
\* operationFinished
StageTurn(l, w, lastError, stage, f) ==
    LET l1 == [l EXCEPT !.state.LastError = lastError, !.workers[w].stage = stage,
                        !.workers[w].pc = "loop"]
    IN IF f[1] THEN SetState(l1, TRUE)
       ELSE OperationFinished(Faulted(l1, FALSE), w, "Upgraded", "storage", f[2], f[3])

\* revertModules of the stage handler: every module whose status is no error is
\* reverted and its status removed; the first error of a module is returned
RevertedStatuses(l) ==
    [id \in {x \in DOMAIN l.moduleStatuses : l.moduleStatuses[x] # ""} |-> l.moduleStatuses[id]]

RevertError(l, res) ==
    IF \E id \in DOMAIN res : res[id] = "error" THEN "module" ELSE ""

\* one turn of the loop of upgrade(stage) or revert(stage) of the stage handler
StageLoop(w) ==
    LET l == legacy
        me == l.workers[w]
        toRevert == {id \in DOMAIN l.moduleStatuses : l.moduleStatuses[id] = ""}
    IN /\ l.kind = "stage"
       /\ me.pc = "loop"
       /\ l.lock = 0
       /\ \/ /\ me.op = "upgrade" /\ me.stage = "Init"
             /\ \E ok \in Outcomes(l), f \in FaultsOf(l, 3) :
                   legacy' = IF ok THEN StageTurn(l, w, "", "Unpack", f)
                             ELSE StageTurn(Faulted(l, FALSE), w, "remove", "Finish",
                                            [i \in 1..3 |-> TRUE])
          \/ /\ me.op = "upgrade" /\ me.stage = "Unpack"
             /\ \E ok \in Outcomes(l), f \in FaultsOf(l, 3) :
                   legacy' = IF ok THEN StageTurn(l, w, "", "UpgradeModules", f)
                             ELSE StageTurn([Faulted(l, FALSE) EXCEPT !.log.unpackFailed = TRUE],
                                            w, "unpack", "Finish", [i \in 1..3 |-> TRUE])
          \/ /\ me.op = "upgrade" /\ me.stage = "UpgradeModules"
             /\ \E ok \in Outcomes(l) :
                   legacy' = IF ok THEN [l EXCEPT !.workers[w].pc = "modules",
                                                  !.workers[w].seen = {}]
                             ELSE StageTurn(Faulted(l, FALSE), w, "metadata", "RevertModules",
                                            [i \in 1..3 |-> TRUE])
          \/ /\ me.op = "upgrade" /\ me.stage = "RevertModules"
             /\ \E res \in [toRevert -> {"ok", "error"}], f \in FaultsOf(l, 3) :
                   legacy' = StageTurn([l EXCEPT !.moduleStatuses = RevertedStatuses(l)],
                                       w, l.state.LastError, "Finish", f)
          \/ /\ me.op = "revert" /\ me.stage = "Init"
             /\ \E f \in FaultsOf(l, 3) :
                   legacy' = StageTurn(l, w, l.state.LastError, "RevertModules", f)
          \/ /\ me.op = "revert" /\ me.stage = "RevertModules"
             /\ \E res \in [toRevert -> {"ok", "error"}], f \in FaultsOf(l, 3) :
                   legacy' = StageTurn([l EXCEPT !.moduleStatuses = RevertedStatuses(l)],
                                       w, RevertError(l, res), "Finish", f)
          \/ /\ me.stage = "Finish"
             /\ \E f \in FaultsOf(l, 2) :
                   legacy' = OperationFinished(l, w,
                                               IF me.op = "upgrade" THEN "Upgraded"
                                               ELSE "Reverted",
                                               l.state.LastError, f[1], f[2])
       /\ UNCHANGED Coordinator

\* updateModules of the stage handler at its next update item: an item that has
\* a status is skipped, whatever the status; else the module is upgraded and its
\* status added, and an error of either ends the pass
StageModule(w) ==
    LET l == legacy
        me == l.workers[w]
        rest == SelectSeq(UpdateItems, LAMBDA id : id \notin me.seen)
        id == Head(rest)
        l0 == [l EXCEPT !.workers[w].seen = @ \cup {id}]
        With(status) == [l0 EXCEPT !.moduleStatuses =
                            [x \in DOMAIN @ \cup {id} |-> IF x = id THEN status ELSE @[x]],
                                   !.log.again = @ \/ (id \in DOMAIN l.moduleStatuses
                                                         /\ l.moduleStatuses[id] = "")]
    IN /\ l.kind = "stage"
       /\ me.pc = "modules"
       /\ l.lock = 0
       /\ IF rest = << >>
            THEN \E f \in FaultsOf(l, 3) : legacy' = StageTurn(l, w, "", "Finish", f)
          ELSE IF id \in DOMAIN l.moduleStatuses
            THEN legacy' = l0
          ELSE \E res \in {"ok", "error"}, added \in Outcomes(l) :
                  \E f \in FaultsOf(Faulted(l, added), 3) :
                     LET l1 == IF added THEN With(IF res = "ok" THEN "" ELSE "module")
                               ELSE Faulted(l0, FALSE)
                     IN legacy' =
                           IF res = "error"
                             THEN StageTurn([l1 EXCEPT !.log.moduleFailed = TRUE], w, "module",
                                            "RevertModules", f)
                           ELSE IF ~added
                             THEN StageTurn(l1, w, "storage", "RevertModules", f)
                           ELSE l1
       /\ UNCHANGED Coordinator

\* what a run has left of calls of the API, restarts of the process, reboots the
\* modules ask for, and failures of the storage, the file system and the platform
LegacyBudget ==
    [calls |-> MaxLegacyCalls, restarts |-> MaxLegacyRestarts, reboots |-> MaxLegacyReboots,
     faults |-> MaxLegacyFaults]

\* New on a new database, for each of the two handlers; the platform has a
\* version that leaves a version to upgrade to and one to revert to
LegacyInit ==
    /\ legacy \in {NewLegacy(kind, version,
                             IF kind = "machine" THEN ZeroMachineState ELSE ZeroStageState,
                             << >>, LegacyBudget, NoLegacyLog) :
                      kind \in {"machine", "stage"}, version \in 1..(MaxVersion - 1)}
    /\ cfg = [components |-> {"a", "c"}, reboots |-> 0, requests |-> {NoRequest},
              callers |-> 1, envs |-> {QuietEnv}, downloadDir |-> TRUE,
              removeAll |-> {TRUE}]
    /\ stored = EmptyBlob
    /\ state = LoadState(EmptyBlob)
    /\ fsmCurrent = stateIdle
    /\ fsmTransition = "none"
    /\ eventArgs = NoRequest
    /\ tpc = "none"
    /\ initTask = InitOver
    /\ overlay = NoOverlay
    /\ statusChannel = <<>>
    /\ chk = NoCalls
    /\ sched = NoSched
    /\ rebootStatuses = <<>>
    /\ coErr = NoErr
    /\ rebootLeft = 0
    /\ aosStore = NoVersions
    /\ vendorStore = NoVendors
    /\ componentStatuses = Installed(cfg.components, QuietEnv.vendor)
    /\ downloadDir = {}
    /\ hist = NoHist

\* the steps of the goroutines of the handler
LegacyWork ==
    \/ MachineInit
    \/ \E w \in Workers : MachineLoop(w)
    \/ \E w \in Workers : MachineModule(w)
    \/ \E w \in Workers : MachineAfter(w)
    \/ \E w \in Workers : MachineFinish(w)
    \/ \E w \in Workers : MachineReboot(w)
    \/ \E w \in Workers : StageLoop(w)
    \/ \E w \in Workers : StageModule(w)
    \/ \E w \in Workers : LegacySend(w)

LegacyNext ==
    \/ \E version \in Versions : MachineUpgrade(version)
    \/ \E version \in Versions : MachineRevert(version)
    \/ \E version \in Versions : StageUpgrade(version)
    \/ \E version \in Versions : StageRevert(version)
    \/ LegacyWork
    \/ LegacyRestart
    \/ LegacyConsume

LegacySpec == LegacyInit /\ [][LegacyNext]_vars

\* the goroutines run, and the client reads the status channel
LegacyFairSpec == LegacySpec /\ WF_vars(LegacyWork) /\ WF_vars(LegacyConsume)

\* a call of Upgrade(version, image) of either handler
UpgradeCalled(version) == MachineUpgrade(version) \/ StageUpgrade(version)

\* C31: Upgrade(version, image) with a version lower than or equal to the current
\* version returns an error in the call, starts no goroutine, and leaves the
\* current version, the operation state and the persisted state as they were.
C31_BadVersion ==
    [][\A version \in Versions :
          (UpgradeCalled(version) /\ version <= legacy.currentVersion) =>
             /\ legacy'.log.err # ""
             /\ legacy'.workers = legacy.workers
             /\ legacy'.currentVersion = legacy.currentVersion
             /\ legacy'.platformVersion = legacy.platformVersion
             /\ legacy'.state = legacy.state
             /\ legacy'.stored = legacy.stored
             /\ legacy'.statusChannel = legacy.statusChannel]_vars

\* Upgrade has been called with the current version and has answered with the
\* error of the version
C31_Witness ==
    /\ legacy.log.call = "upgrade"
    /\ legacy.log.version = legacy.log.before[1]
    /\ legacy.log.version > 0
    /\ legacy.log.err \in {"wrong upgrade version", "wrong update version"}
    /\ legacy.currentVersion = legacy.log.before[1]
    /\ legacy.state = legacy.log.before[2]
    /\ legacy.stored = legacy.log.before[3]

\* GetLastOperation of either handler
LastOperation(l) ==
    IF l.kind = "machine" THEN l.state.OperationType
    ELSE IF l.state.OperationState \in {"Reverting", "Reverted"} THEN "revert" ELSE "upgrade"

\* the goroutine w is about to send the final status of an accepted upgrade
UpgradeEnds(w) ==
    /\ legacy.workers[w].pc = "send"
    /\ legacy.workers[w].op = "upgrade"
    /\ legacy.log.accepted = "upgrade"

\* C32: when the upgrade of a module has failed, the operation ends with the
\* status Failed, a last error, the current version it started with, the
\* operation version requested and upgrade as last operation; when nothing has
\* failed it ends with Success and the requested version as current version.
C32_AsStated ==
    \A w \in Workers :
       UpgradeEnds(w) =>
          /\ legacy.log.moduleFailed =>
                /\ legacy.workers[w].err = FailedStatus
                /\ legacy.state.LastError # ""
                /\ legacy.currentVersion = legacy.log.start
                /\ legacy.state.OperationVersion = legacy.log.requested
                /\ LastOperation(legacy) = "upgrade"
          /\ (~legacy.log.moduleFailed /\ legacy.left.faults = MaxLegacyFaults) =>
                /\ legacy.workers[w].err = SuccessStatus
                /\ legacy.currentVersion = legacy.log.requested

\* New has found an operation under way in the stored state
Resumed == legacy.log.resumed

\* the final status of the operation is on the status channel
StatusEmitted == legacy.statusChannel # << >>

\* Upgrade of a module has been called though its stored state was upgraded
UpgradedAgain == legacy.log.again

C38_AsStated ==
    \A w \in Workers :
       (legacy.kind = "machine" /\ UpgradeEnds(w) /\ legacy.log.unpackFailed) =>
          /\ legacy.workers[w].err = FailedStatus
          /\ legacy.state.LastError # ""
          /\ legacy.currentVersion = legacy.log.start
          /\ legacy.platformVersion = legacy.log.start

\* the save of the state has failed inside switchState
SwitchFailed == legacy.kind = "machine" /\ legacy.log.switchFailed

\* the operation is over with an error: the state is idle with a last error, the
\* status Failed is on the status channel, and the mutex is free for the API
EndedFailed ==
    /\ legacy.state.OperationState = "idle"
    /\ legacy.state.LastError # ""
    /\ legacy.statusChannel # << >>
    /\ Last(legacy.statusChannel) = FailedStatus
    /\ legacy.lock = 0

\* C39: when the save of the state fails inside switchState, the operation still
\* ends: the handler is idle with the error recorded, Failed is emitted on the
\* status channel, and later calls of the API do not block.
C39_AsStated == SwitchFailed ~> EndedFailed

\* the goroutines of upgrade() and revert() that have not returned
RunningWorkers(l) == {w \in Workers : l.workers[w].pc # "off"}

\* C40: Revert of the state machine handler is accepted only in the state idle,
\* so that at most one goroutine of upgrade() and revert() runs at any time.
C40_AsStated ==
    legacy.kind = "machine" =>
       /\ Cardinality(RunningWorkers(legacy)) <= 1
       /\ (legacy.log.call = "revert" /\ legacy.log.err = "") =>
             legacy.log.before[2].OperationState = "idle"

====
